---- MODULE Spec2Model ----
(***************************************************************************)
(* ATC simulator (ATC-Simulator-App/app/simulation.py) and the airport     *)
(* scheduler (agent/airport/scheduler.py, agent/airport/airport.py,        *)
(* airport/runway.py) as state machines.                                   *)
(*                                                                         *)
(* Numeric representation.  The program computes with Python floats; the   *)
(* model computes with integers at a fixed resolution:                     *)
(*   position   1/1000 nm        altitude  1 ft       speed  1 kt         *)
(*   heading    1 degree         time      1 s                            *)
(* sin/cos are a table of thousandths per whole degree, atan2 is the whole *)
(* degree whose direction is closest to the vector, and a quotient is      *)
(* rounded to the nearest unit.  A distance comparison sqrt(dx^2+dy^2) < r *)
(* is made on the squares.  speed_multiplier is kept in halves (2 = 1.0).  *)
(***************************************************************************)
EXTENDS Integers, Sequences, FiniteSets, TLC

VARIABLES
    \* ---- ATCSimulator ----
    flights,             \* the dict's Flight values, in insertion order
    failed,
    failure_reason,
    collision_pair,
    speed_multiplier,    \* in halves: 1 = 0.5x, 2 = 1.0x, 20 = 10.0x
    landed_count,
    departed_count,
    near_miss_count,
    landed_flights,
    departed_flights,
    active_near_misses,
    running,
    now,                 \* datetime.now(), whole seconds
    last_op,             \* the operation just executed, what it returned and, for a
                         \* command that reached a flight, the command
    n_ticks, n_cmds, n_spawns,   \* how many of each have run (bounded)
    \* ---- Airport / FlightScheduler / Runway ----
    schedule_heap,       \* the heapq list of ScheduleEntry
    runways,             \* Airport.runways, in add_runway order
    next_id,             \* number of requests inserted so far
    popped,              \* what the last get_next_flight returned: <<entry>>, or <<>> for None
    \* ---- the task running ATCSimulator.run ----
    run_task,            \* where run() stands, and the locals of the iteration it is in
    n_stops              \* how many times stop() has been called (bounded)

simVars   == <<flights, failed, failure_reason, collision_pair,
               speed_multiplier, landed_count, departed_count, near_miss_count,
               landed_flights, departed_flights, active_near_misses, running,
               now, last_op, n_ticks, n_cmds, n_spawns>>
schedVars == <<schedule_heap, runways, next_id, popped>>
loopVars  == <<run_task, n_stops>>
vars      == <<simVars, schedVars, loopVars>>

----------------------------------------------------------------------------
(* Static tables *)

AIRCRAFT_TYPES ==
    [B738 |-> [cruise_speed |-> 450, approach_speed |-> 140, climb_rate |-> 2500, descent_rate |-> 1500],
     A320 |-> [cruise_speed |-> 450, approach_speed |-> 137, climb_rate |-> 2400, descent_rate |-> 1400],
     B77W |-> [cruise_speed |-> 490, approach_speed |-> 150, climb_rate |-> 2000, descent_rate |-> 1200],
     A359 |-> [cruise_speed |-> 480, approach_speed |-> 145, climb_rate |-> 2200, descent_rate |-> 1300],
     E190 |-> [cruise_speed |-> 430, approach_speed |-> 130, climb_rate |-> 2800, descent_rate |-> 1600],
     C172 |-> [cruise_speed |-> 120, approach_speed |-> 65,  climb_rate |-> 700,  descent_rate |-> 500]]

AIRPORT == [elevation |-> 32, runway_heading |-> 340]

\* positions in 1/1000 nm, registry (dict) order
WAYPOINT_NAMES ==
    <<"NORTH", "SOUTH", "EAST", "SHORT_EAST", "WEST", "DOWNWIND", "BASE", "FINAL",
      "RUNWAY", "ALPHA", "BRAVO", "CHARLIE", "DELTA", "ECHO", "HOTEL">>

WAYPOINTS ==
    [NORTH      |-> [x |-> 0,      y |-> 25000,  altitude_restriction |-> 6000],
     SOUTH      |-> [x |-> 0,      y |-> -25000, altitude_restriction |-> 6000],
     EAST       |-> [x |-> 25000,  y |-> 0,      altitude_restriction |-> 6000],
     SHORT_EAST |-> [x |-> 15000,  y |-> 0,      altitude_restriction |-> 4000],
     WEST       |-> [x |-> -25000, y |-> 0,      altitude_restriction |-> 6000],
     DOWNWIND   |-> [x |-> -9000,  y |-> 6000,   altitude_restriction |-> 2000],
     BASE       |-> [x |-> -9000,  y |-> -12000, altitude_restriction |-> 1500],
     FINAL      |-> [x |-> 0,      y |-> -15000, altitude_restriction |-> 1000],
     RUNWAY     |-> [x |-> 0,      y |-> 0,      altitude_restriction |-> 32],
     ALPHA      |-> [x |-> -15000, y |-> 15000,  altitude_restriction |-> 5000],
     BRAVO      |-> [x |-> 15000,  y |-> 15000,  altitude_restriction |-> 5000],
     CHARLIE    |-> [x |-> -15000, y |-> -15000, altitude_restriction |-> 4000],
     DELTA      |-> [x |-> 15000,  y |-> -15000, altitude_restriction |-> 4000],
     ECHO       |-> [x |-> 0,      y |-> -22000, altitude_restriction |-> 2500],
     HOTEL      |-> [x |-> -18000, y |-> 0,      altitude_restriction |-> 3500]]

WaypointSet == {WAYPOINT_NAMES[i] : i \in 1..Len(WAYPOINT_NAMES)}

LANDING_RULES ==
    [max_altitude |-> 1500, min_speed |-> 100, max_speed |-> 180,
     max_distance |-> 18000, required_waypoint |-> "FINAL"]

NEAR_MISS_DISTANCE_NM == 500
NEAR_MISS_ALTITUDE    == 1000
COLLISION_DISTANCE_NM == 150
COLLISION_ALTITUDE    == 500

None   == "None"
NoTime == -1

----------------------------------------------------------------------------
(* Arithmetic helpers *)

Abs(a) == IF a < 0 THEN -a ELSE a
Min(a, b) == IF a < b THEN a ELSE b
Max(a, b) == IF a > b THEN a ELSE b

\* a / b rounded to the nearest unit (b > 0)
RoundDiv(a, b) == IF a >= 0 THEN (2 * a + b) \div (2 * b)
                  ELSE -((2 * (-a) + b) \div (2 * b))

SinTable ==
  <<0, 17, 35, 52, 70, 87, 105, 122, 139, 156, 174, 191, 208,
    225, 242, 259, 276, 292, 309, 326, 342, 358, 375, 391, 407, 423,
    438, 454, 469, 485, 500, 515, 530, 545, 559, 574, 588, 602, 616,
    629, 643, 656, 669, 682, 695, 707, 719, 731, 743, 755, 766, 777,
    788, 799, 809, 819, 829, 839, 848, 857, 866, 875, 883, 891, 899,
    906, 914, 921, 927, 934, 940, 946, 951, 956, 961, 966, 970, 974,
    978, 982, 985, 988, 990, 993, 995, 996, 998, 999, 999, 1000, 1000>>

\* 1000 * sin(d degrees), d in 0..359
SinDeg(d) == IF d <= 90  THEN SinTable[d + 1]
             ELSE IF d <= 180 THEN SinTable[180 - d + 1]
             ELSE IF d <= 270 THEN -SinTable[d - 180 + 1]
             ELSE -SinTable[360 - d + 1]
CosDeg(d) == SinDeg((d + 90) % 360)

\* sqrt(dx^2 + dy^2) < r   and   sqrt(dx^2 + dy^2) <= r   (r in 1/1000 nm)
DistLess(dx, dy, r) == Abs(dx) < r /\ Abs(dy) < r /\ dx * dx + dy * dy < r * r
DistLeq(dx, dy, r)  == Abs(dx) <= r /\ Abs(dy) <= r /\ dx * dx + dy * dy <= r * r

\* the largest whole degree d in a..b whose direction is not past the vector
\* (dx, dy), turning clockwise from north; the direction a is not past it
RECURSIVE FloorDir(_, _, _, _)
FloorDir(dx, dy, a, b) ==
    IF a >= b THEN a
    ELSE LET m == (a + b + 1) \div 2
         IN  IF dx * CosDeg(m % 360) - dy * SinDeg(m % 360) >= 0
             THEN FloorDir(dx, dy, m, b)
             ELSE FloorDir(dx, dy, a, m - 1)

\* math.degrees(math.atan2(dx, dy)) % 360, to the nearest whole degree
Bearing(dx, dy) ==
    IF dx = 0 /\ dy = 0 THEN 0
    ELSE LET lo == IF dx >= 0 /\ dy > 0 THEN 0
                   ELSE IF dx > 0 /\ dy <= 0 THEN 90
                   ELSE IF dx <= 0 /\ dy < 0 THEN 180
                   ELSE 270
             d  == FloorDir(dx, dy, lo, lo + 90)
             cross(e) == dx * CosDeg(e % 360) - dy * SinDeg(e % 360)
         IN  (IF Abs(cross(d + 1)) < Abs(cross(d)) THEN d + 1 ELSE d) % 360

----------------------------------------------------------------------------
(* Flight *)

ARRIVAL   == "arrival"
DEPARTURE == "departure"

APPROACHING       == "approaching"
ON_FINAL          == "on_final"
LANDING           == "landing"
LANDED            == "landed"
AT_GATE           == "at_gate"
READY_FOR_TAKEOFF == "ready_for_takeoff"
TAKING_OFF        == "taking_off"
DEPARTING         == "departing"
DEPARTED          == "departed"

SeqContains(s, e) == \E i \in 1..Len(s) : s[i] = e

\* Flight.__init__
NewFlight(callsign, flight_type, aircraft_type, x, y, altitude, speed, heading) ==
    [callsign |-> callsign, flight_type |-> flight_type, aircraft_type |-> aircraft_type,
     x |-> x, y |-> y, altitude |-> altitude, speed |-> speed, heading |-> heading,
     target_altitude |-> altitude, target_speed |-> speed, target_heading |-> heading,
     target_waypoint |-> None,
     status |-> IF flight_type = ARRIVAL THEN APPROACHING ELSE AT_GATE,
     cleared_to_land |-> FALSE, cleared_for_takeoff |-> FALSE,
     passed_waypoints |-> <<>>, current_waypoint |-> None,
     gate_time |-> 0, completed_at |-> NoTime,
     clearance_denial_reason |-> None,
     counted |-> FALSE, done_time |-> NoTime]

characteristics(f) == AIRCRAFT_TYPES[f.aircraft_type]

\* the test leaving out only the flights that are done or at the gate
is_airborne_active_unless_done(f) == f.status \notin {LANDED, AT_GATE, DEPARTED}

\* Flight.is_airborne_active
is_airborne_active(f) ==
    f.status \in {APPROACHING, ON_FINAL, LANDING, TAKING_OFF, DEPARTING}

\* the landing rules never looked at
_check_landing_rules_skipped(f) == None

\* the altitude rule refusing a flight exactly at max_altitude
_check_landing_rules_below_max(f) ==
    IF f.altitude >= LANDING_RULES.max_altitude THEN "altitude exceeds max"
    ELSE IF f.speed < LANDING_RULES.min_speed THEN "speed below min"
    ELSE IF f.speed > LANDING_RULES.max_speed THEN "speed exceeds max"
    ELSE IF ~DistLeq(f.x, f.y, LANDING_RULES.max_distance) THEN "distance exceeds max"
    ELSE IF ~SeqContains(f.passed_waypoints, LANDING_RULES.required_waypoint)
         THEN "must pass waypoint first"
    ELSE None

\* Flight._check_landing_rules: None when every rule holds, else the reason of
\* the first rule that fails
_check_landing_rules(f) ==
    IF f.altitude > LANDING_RULES.max_altitude THEN "altitude exceeds max"
    ELSE IF f.speed < LANDING_RULES.min_speed THEN "speed below min"
    ELSE IF f.speed > LANDING_RULES.max_speed THEN "speed exceeds max"
    ELSE IF ~DistLeq(f.x, f.y, LANDING_RULES.max_distance) THEN "distance exceeds max"
    ELSE IF ~SeqContains(f.passed_waypoints, LANDING_RULES.required_waypoint)
         THEN "must pass waypoint first"
    ELSE None

\* A FlightCommand: every field is <<>> (absent) or <<value>>
FlightCommand(altitude, speed, heading, waypoint, clear_to_land, clear_for_takeoff) ==
    [altitude |-> altitude, speed |-> speed, heading |-> heading, waypoint |-> waypoint,
     clear_to_land |-> clear_to_land, clear_for_takeoff |-> clear_for_takeoff]

Accepted == [success |-> TRUE, message |-> "Command accepted"]

\* a denied clearance still sending the flight down to the field
apply_command_denial_descends(f, command) ==
    LET f1 == IF command.altitude # <<>>
              THEN [f EXCEPT !.target_altitude = command.altitude[1]] ELSE f
        f2 == IF command.speed # <<>>
              THEN [f1 EXCEPT !.target_speed = command.speed[1]] ELSE f1
        f3 == IF command.heading # <<>>
              THEN [f2 EXCEPT !.target_heading = command.heading[1] % 360,
                              !.target_waypoint = None]
              ELSE f2
        wpKnown == command.waypoint # <<>> /\ command.waypoint[1] \in WaypointSet
        f4 == IF wpKnown
              THEN [f3 EXCEPT !.target_waypoint = command.waypoint[1],
                              !.current_waypoint = command.waypoint[1]]
              ELSE f3
        r4 == IF command.waypoint # <<>> /\ ~wpKnown
              THEN [success |-> FALSE, message |-> "Unknown waypoint"] ELSE Accepted
        f5 == IF command.clear_for_takeoff # <<>>
              THEN [f4 EXCEPT !.cleared_for_takeoff = command.clear_for_takeoff[1]] ELSE f4
        reason == _check_landing_rules(f5)
        f6 == IF command.clear_to_land = <<>> THEN f5
              ELSE IF command.clear_to_land[1]
              THEN IF reason = None
                   THEN [f5 EXCEPT !.cleared_to_land = TRUE,
                                   !.clearance_denial_reason = None,
                                   !.target_waypoint = "RUNWAY",
                                   !.current_waypoint = "RUNWAY",
                                   !.target_altitude = AIRPORT.elevation,
                                   !.target_speed = characteristics(f5).approach_speed]
                   ELSE [f5 EXCEPT !.clearance_denial_reason = reason,
                                   !.target_altitude = AIRPORT.elevation]
              ELSE [f5 EXCEPT !.cleared_to_land = FALSE,
                              !.clearance_denial_reason = None]
        r6 == IF command.clear_to_land # <<>> /\ command.clear_to_land[1] /\ reason # None
              THEN [success |-> FALSE, message |-> "Cannot clear to land"] ELSE r4
    IN  [flight |-> f6, result |-> r6]

\* Flight.apply_command with a granted clearance leaving a commanded altitude alone
apply_command_keeps_altitude(f, command) ==
    LET f1 == IF command.altitude # <<>>
              THEN [f EXCEPT !.target_altitude = command.altitude[1]] ELSE f
        f2 == IF command.speed # <<>>
              THEN [f1 EXCEPT !.target_speed = command.speed[1]] ELSE f1
        f3 == IF command.heading # <<>>
              THEN [f2 EXCEPT !.target_heading = command.heading[1] % 360,
                              !.target_waypoint = None]
              ELSE f2
        wpKnown == command.waypoint # <<>> /\ command.waypoint[1] \in WaypointSet
        f4 == IF wpKnown
              THEN [f3 EXCEPT !.target_waypoint = command.waypoint[1],
                              !.current_waypoint = command.waypoint[1]]
              ELSE f3
        r4 == IF command.waypoint # <<>> /\ ~wpKnown
              THEN [success |-> FALSE, message |-> "Unknown waypoint"] ELSE Accepted
        f5 == IF command.clear_for_takeoff # <<>>
              THEN [f4 EXCEPT !.cleared_for_takeoff = command.clear_for_takeoff[1]] ELSE f4
        reason == _check_landing_rules(f5)
        f6 == IF command.clear_to_land = <<>> THEN f5
              ELSE IF command.clear_to_land[1]
              THEN IF reason = None
                   THEN [f5 EXCEPT !.cleared_to_land = TRUE,
                                   !.clearance_denial_reason = None,
                                   !.target_waypoint = "RUNWAY",
                                   !.current_waypoint = "RUNWAY",
                                   !.target_altitude = IF command.altitude # <<>>
                                                       THEN command.altitude[1]
                                                       ELSE AIRPORT.elevation,
                                   !.target_speed = characteristics(f5).approach_speed]
                   ELSE [f5 EXCEPT !.clearance_denial_reason = reason]
              ELSE [f5 EXCEPT !.cleared_to_land = FALSE,
                              !.clearance_denial_reason = None]
        r6 == IF command.clear_to_land # <<>> /\ command.clear_to_land[1] /\ reason # None
              THEN [success |-> FALSE, message |-> "Cannot clear to land"] ELSE r4
    IN  [flight |-> f6, result |-> r6]

\* Flight.apply_command: the flight after the command and the result dict
apply_command(f, command) ==
    LET f1 == IF command.altitude # <<>>
              THEN [f EXCEPT !.target_altitude = command.altitude[1]] ELSE f
        f2 == IF command.speed # <<>>
              THEN [f1 EXCEPT !.target_speed = command.speed[1]] ELSE f1
        f3 == IF command.heading # <<>>
              THEN [f2 EXCEPT !.target_heading = command.heading[1] % 360,
                              !.target_waypoint = None]
              ELSE f2
        wpKnown == command.waypoint # <<>> /\ command.waypoint[1] \in WaypointSet
        f4 == IF wpKnown
              THEN [f3 EXCEPT !.target_waypoint = command.waypoint[1],
                              !.current_waypoint = command.waypoint[1]]
              ELSE f3
        r4 == IF command.waypoint # <<>> /\ ~wpKnown
              THEN [success |-> FALSE, message |-> "Unknown waypoint"] ELSE Accepted
        f5 == IF command.clear_for_takeoff # <<>>
              THEN [f4 EXCEPT !.cleared_for_takeoff = command.clear_for_takeoff[1]] ELSE f4
        reason == _check_landing_rules(f5)
        f6 == IF command.clear_to_land = <<>> THEN f5
              ELSE IF command.clear_to_land[1]
              THEN IF reason = None
                   THEN [f5 EXCEPT !.cleared_to_land = TRUE,
                                   !.clearance_denial_reason = None,
                                   !.target_waypoint = "RUNWAY",
                                   !.current_waypoint = "RUNWAY",
                                   !.target_altitude = AIRPORT.elevation,
                                   !.target_speed = characteristics(f5).approach_speed]
                   ELSE [f5 EXCEPT !.clearance_denial_reason = reason]
              ELSE [f5 EXCEPT !.cleared_to_land = FALSE,
                              !.clearance_denial_reason = None]
        r6 == IF command.clear_to_land # <<>> /\ command.clear_to_land[1] /\ reason # None
              THEN [success |-> FALSE, message |-> "Cannot clear to land"] ELSE r4
    IN  [flight |-> f6, result |-> r6]

----------------------------------------------------------------------------
(* Flight.update and its steps *)

\* Flight._navigate_to_waypoint
_navigate_to_waypoint(f) ==
    IF f.target_waypoint = None \/ f.target_waypoint \notin WaypointSet THEN f
    ELSE LET waypoint == WAYPOINTS[f.target_waypoint]
         IN  [f EXCEPT !.target_heading = Bearing(waypoint.x - f.x, waypoint.y - f.y)]

\* the passage check without its test on passed_waypoints
_check_waypoint_passage_again(f) ==
    LET near(name) == DistLess(WAYPOINTS[name].x - f.x, WAYPOINTS[name].y - f.y, 500)
        newly == SelectSeq(WAYPOINT_NAMES, near)
    IN  IF SeqContains(newly, f.target_waypoint)
        THEN [f EXCEPT !.passed_waypoints = @ \o newly,
                       !.target_waypoint = None,
                       !.target_heading = f.heading]
        ELSE [f EXCEPT !.passed_waypoints = @ \o newly]

\* Flight._check_waypoint_passage: every registry waypoint not yet passed and
\* closer than 0.5 nm is appended, in registry order
_check_waypoint_passage(f) ==
    LET near(name) == /\ ~SeqContains(f.passed_waypoints, name)
                      /\ DistLess(WAYPOINTS[name].x - f.x, WAYPOINTS[name].y - f.y, 500)
        newly == SelectSeq(WAYPOINT_NAMES, near)
    IN  IF SeqContains(newly, f.target_waypoint)
        THEN [f EXCEPT !.passed_waypoints = @ \o newly,
                       !.target_waypoint = None,
                       !.target_heading = f.heading]
        ELSE [f EXCEPT !.passed_waypoints = @ \o newly]

\* an arrival on final above 2000 ft sent back to APPROACHING
_update_status_go_around(f, t) ==
    IF f.flight_type = ARRIVAL THEN
        IF f.status = APPROACHING THEN
            IF SeqContains(f.passed_waypoints, "FINAL") /\ f.altitude < 2000
            THEN [f EXCEPT !.status = ON_FINAL] ELSE f
        ELSE IF f.status = ON_FINAL THEN
            IF f.cleared_to_land /\ DistLess(f.x, f.y, 500) /\ f.altitude < 300
            THEN [f EXCEPT !.status = LANDING]
            ELSE IF f.altitude >= 2000 THEN [f EXCEPT !.status = APPROACHING] ELSE f
        ELSE IF f.status = LANDING THEN
            IF DistLess(f.x, f.y, 100) \/ f.altitude <= AIRPORT.elevation + 20
            THEN [f EXCEPT !.altitude = AIRPORT.elevation, !.speed = 0,
                           !.status = LANDED, !.completed_at = t]
            ELSE f
        ELSE f
    ELSE
        IF f.status = READY_FOR_TAKEOFF THEN
            IF f.cleared_for_takeoff
            THEN [f EXCEPT !.status = TAKING_OFF, !.target_speed = 180,
                           !.target_altitude = 6000,
                           !.target_heading = AIRPORT.runway_heading,
                           !.target_waypoint = "NORTH", !.current_waypoint = "NORTH"]
            ELSE f
        ELSE IF f.status = TAKING_OFF THEN
            IF f.speed > 140 THEN [f EXCEPT !.status = DEPARTING] ELSE f
        ELSE IF f.status = DEPARTING THEN
            IF SeqContains(f.passed_waypoints, "NORTH") /\ f.altitude >= 5900
            THEN [f EXCEPT !.status = DEPARTED, !.completed_at = t] ELSE f
        ELSE f

\* Flight._update_status (t is datetime.now())
_update_status(f, t) ==
    IF f.flight_type = ARRIVAL THEN
        IF f.status = APPROACHING THEN
            IF SeqContains(f.passed_waypoints, "FINAL") /\ f.altitude < 2000
            THEN [f EXCEPT !.status = ON_FINAL] ELSE f
        ELSE IF f.status = ON_FINAL THEN
            IF f.cleared_to_land /\ DistLess(f.x, f.y, 500) /\ f.altitude < 300
            THEN [f EXCEPT !.status = LANDING] ELSE f
        ELSE IF f.status = LANDING THEN
            IF DistLess(f.x, f.y, 100) \/ f.altitude <= AIRPORT.elevation + 20
            THEN [f EXCEPT !.altitude = AIRPORT.elevation, !.speed = 0,
                           !.status = LANDED, !.completed_at = t]
            ELSE f
        ELSE f
    ELSE
        IF f.status = READY_FOR_TAKEOFF THEN
            IF f.cleared_for_takeoff
            THEN [f EXCEPT !.status = TAKING_OFF, !.target_speed = 180,
                           !.target_altitude = 6000,
                           !.target_heading = AIRPORT.runway_heading,
                           !.target_waypoint = "NORTH", !.current_waypoint = "NORTH"]
            ELSE f
        ELSE IF f.status = TAKING_OFF THEN
            IF f.speed > 140 THEN [f EXCEPT !.status = DEPARTING] ELSE f
        ELSE IF f.status = DEPARTING THEN
            IF SeqContains(f.passed_waypoints, "NORTH") /\ f.altitude >= 5900
            THEN [f EXCEPT !.status = DEPARTED, !.completed_at = t] ELSE f
        ELSE f

\* the altitude step of Flight.update
UpdateAltitude(f, dt) ==
    IF Abs(f.altitude - f.target_altitude) > 10
    THEN IF f.altitude < f.target_altitude
         THEN [f EXCEPT !.altitude = Max(0, @ + RoundDiv(characteristics(f).climb_rate * dt, 60))]
         ELSE [f EXCEPT !.altitude = Max(0, @ - RoundDiv(characteristics(f).descent_rate * dt, 60))]
    ELSE f

\* the speed step without its clamp at the target
UpdateSpeed_unclamped(f, dt) ==
    IF Abs(f.speed - f.target_speed) > 1
    THEN IF f.speed < f.target_speed
         THEN [f EXCEPT !.speed = @ + 5 * dt]
         ELSE [f EXCEPT !.speed = @ - 5 * dt]
    ELSE f

\* the speed step of Flight.update
UpdateSpeed(f, dt) ==
    IF Abs(f.speed - f.target_speed) > 1
    THEN IF f.speed < f.target_speed
         THEN [f EXCEPT !.speed = Min(@ + 5 * dt, f.target_speed)]
         ELSE [f EXCEPT !.speed = Max(@ - 5 * dt, f.target_speed)]
    ELSE f

\* the heading step of Flight.update
UpdateHeading(f, dt) ==
    LET heading_diff == ((f.target_heading - f.heading + 540) % 360) - 180
        turn_amount  == Min(Abs(heading_diff), 3 * dt)
    IN  IF Abs(heading_diff) >= 1
        THEN [f EXCEPT !.heading = (IF heading_diff > 0 THEN @ + turn_amount
                                    ELSE @ - turn_amount) % 360]
        ELSE f

\* the position step of Flight.update
UpdatePosition(f, dt) ==
    [f EXCEPT !.x = @ + RoundDiv(f.speed * dt * SinDeg(f.heading), 3600),
              !.y = @ + RoundDiv(f.speed * dt * CosDeg(f.heading), 3600)]

\* Flight.update(dt) without the early return for LANDED and DEPARTED
FlightUpdate_flies_on(f, dt, t) ==
    IF f.status = AT_GATE
    THEN IF f.flight_type = DEPARTURE
         THEN IF f.gate_time + dt > 60
              THEN [f EXCEPT !.gate_time = @ + dt, !.status = READY_FOR_TAKEOFF]
              ELSE [f EXCEPT !.gate_time = @ + dt]
         ELSE f
    ELSE LET f1 == IF f.target_waypoint # None THEN _navigate_to_waypoint(f) ELSE f
             f2 == UpdateAltitude(f1, dt)
             f3 == UpdateSpeed(f2, dt)
             f4 == UpdateHeading(f3, dt)
             f5 == UpdatePosition(f4, dt)
             f6 == _check_waypoint_passage(f5)
         IN  _update_status(f6, t)

\* Flight.update(dt)
FlightUpdate(f, dt, t) ==
    IF f.status \in {LANDED, DEPARTED, AT_GATE}
    THEN IF f.status = AT_GATE /\ f.flight_type = DEPARTURE
         THEN IF f.gate_time + dt > 60
              THEN [f EXCEPT !.gate_time = @ + dt, !.status = READY_FOR_TAKEOFF]
              ELSE [f EXCEPT !.gate_time = @ + dt]
         ELSE f
    ELSE LET f1 == IF f.target_waypoint # None THEN _navigate_to_waypoint(f) ELSE f
             f2 == UpdateAltitude(f1, dt)
             f3 == UpdateSpeed(f2, dt)
             f4 == UpdateHeading(f3, dt)
             f5 == UpdatePosition(f4, dt)
             f6 == _check_waypoint_passage(f5)
         IN  _update_status(f6, t)

----------------------------------------------------------------------------
(* ATCSimulator *)

\* callsigns the generator can return, in sorted() order
CALLSIGNS == <<"AAL100", "DAL200", "UAL300">>
CallsignSet == {CALLSIGNS[i] : i \in 1..Len(CALLSIGNS)}
Rank(c) == CHOOSE i \in 1..Len(CALLSIGNS) : CALLSIGNS[i] = c

\* tuple(sorted([c1, c2]))
SortedPair(c1, c2) == IF Rank(c1) <= Rank(c2) THEN <<c1, c2>> ELSE <<c2, c1>>

\* the keys of the flights dict, and the value under a key
Live == {flights[i].callsign : i \in 1..Len(flights)}
FlightOf(c) == flights[CHOOSE i \in 1..Len(flights) : flights[i].callsign = c]

\* ATCSimulator.__init__, then run() has set running
SimInit ==
    /\ flights = <<>>
    /\ failed = FALSE
    /\ failure_reason = None
    /\ collision_pair = <<>>
    /\ speed_multiplier = 2
    /\ landed_count = 0
    /\ departed_count = 0
    /\ near_miss_count = 0
    /\ landed_flights = <<>>
    /\ departed_flights = <<>>
    /\ active_near_misses = {}
    /\ running = TRUE
    /\ now = 0
    /\ last_op = [op |-> "init", callsign |-> None, success |-> TRUE, message |-> None]
    /\ n_ticks = 0 /\ n_cmds = 0 /\ n_spawns = 0

\* for flight in self.flights.values(): flight.update(dt)
RECURSIVE UpdateAll(_, _, _, _)
UpdateAll(fl, k, dt, t) ==
    IF k > Len(fl) THEN <<>>
    ELSE <<FlightUpdate(fl[k], dt, t)>> \o UpdateAll(fl, k + 1, dt, t)

\* the pairs (i, j), i < j <= n, in the order of the nested loops
RECURSIVE PairsFrom(_, _, _)
PairsFrom(i, j, n) ==
    IF i >= n THEN <<>>
    ELSE IF j > n THEN PairsFrom(i + 1, i + 2, n)
    ELSE <<(<<i, j>>)>> \o PairsFrom(i, j + 1, n)

\* the collision test without its altitude part
InCollisionHorizontal(f1, f2) ==
    DistLess(f1.x - f2.x, f1.y - f2.y, COLLISION_DISTANCE_NM)

\* the collision test of check_separations
InCollision(f1, f2) ==
    /\ DistLess(f1.x - f2.x, f1.y - f2.y, COLLISION_DISTANCE_NM)
    /\ Abs(f1.altitude - f2.altitude) < COLLISION_ALTITUDE

\* the near-miss test of check_separations
InNearMiss(f1, f2) ==
    /\ DistLess(f1.x - f2.x, f1.y - f2.y, NEAR_MISS_DISTANCE_NM)
    /\ Abs(f1.altitude - f2.altitude) < NEAR_MISS_ALTITUDE

\* the loops counting a pair at every check that finds it within the thresholds
RECURSIVE ScanPairsRecount(_, _, _, _)
ScanPairsRecount(airborne, pairs, k, acc) ==
    IF k > Len(pairs) THEN acc
    ELSE LET f1 == airborne[pairs[k][1]]
             f2 == airborne[pairs[k][2]]
             pair == SortedPair(f1.callsign, f2.callsign)
         IN  IF InCollision(f1, f2)
             THEN [acc EXCEPT !.hit = TRUE, !.failed = TRUE,
                              !.failure_reason = "COLLISION",
                              !.collision_pair = pair]
             ELSE IF InNearMiss(f1, f2)
             THEN ScanPairsRecount(airborne, pairs, k + 1,
                            [acc EXCEPT !.current = @ \cup {pair},
                                        !.near_miss_count = @ + 1])
             ELSE ScanPairsRecount(airborne, pairs, k + 1, acc)

\* the nested loops of check_separations from pair k on; acc carries
\* failed, failure_reason, collision_pair, near_miss_count and
\* current_near_misses; hit is true when the loops returned on a collision
RECURSIVE ScanPairs(_, _, _, _)
ScanPairs(airborne, pairs, k, acc) ==
    IF k > Len(pairs) THEN acc
    ELSE LET f1 == airborne[pairs[k][1]]
             f2 == airborne[pairs[k][2]]
             pair == SortedPair(f1.callsign, f2.callsign)
         IN  IF InCollision(f1, f2)
             THEN [acc EXCEPT !.hit = TRUE, !.failed = TRUE,
                              !.failure_reason = "COLLISION",
                              !.collision_pair = pair]
             ELSE IF InNearMiss(f1, f2)
             THEN ScanPairs(airborne, pairs, k + 1,
                            [acc EXCEPT !.current = @ \cup {pair},
                                        !.near_miss_count =
                                            IF pair \notin active_near_misses THEN @ + 1 ELSE @])
             ELSE ScanPairs(airborne, pairs, k + 1, acc)

\* ATCSimulator.check_separations on the flights fl (failed is false):
\* the new failed, failure_reason, collision_pair, near_miss_count and
\* active_near_misses
check_separations(fl) ==
    LET airborne == SelectSeq(fl, is_airborne_active)
        acc0 == [hit |-> FALSE, failed |-> failed, failure_reason |-> failure_reason,
                 collision_pair |-> collision_pair, near_miss_count |-> near_miss_count,
                 current |-> {}]
        acc == ScanPairs(airborne, PairsFrom(1, 2, Len(airborne)), 1, acc0)
    IN  [failed |-> acc.failed, failure_reason |-> acc.failure_reason,
         collision_pair |-> acc.collision_pair, near_miss_count |-> acc.near_miss_count,
         active_near_misses |-> IF acc.hit THEN active_near_misses ELSE acc.current]

\* Flight.to_history_data
to_history_data(f) ==
    [callsign |-> f.callsign, flight_type |-> f.flight_type, completed_at |-> f.completed_at]

\* the loop body of cleanup_flights without the _counted mark
RECURSIVE CleanupFrom_recounts(_, _, _)
CleanupFrom_recounts(fl, k, t) ==
    IF k > Len(fl) THEN [keep |-> <<>>, landed |-> <<>>, departed |-> <<>>]
    ELSE LET f == fl[k]
             rest == CleanupFrom_recounts(fl, k + 1, t)
         IN  IF f.status \in {LANDED, DEPARTED}
             THEN [keep |-> <<[f EXCEPT !.done_time = t]>> \o rest.keep,
                   landed |-> IF f.status = LANDED
                              THEN <<to_history_data(f)>> \o rest.landed ELSE rest.landed,
                   departed |-> IF f.status = DEPARTED
                                THEN <<to_history_data(f)>> \o rest.departed
                                ELSE rest.departed]
             ELSE [rest EXCEPT !.keep = <<f>> \o @]

\* the loop body of cleanup_flights removing a flight once 3 seconds have
\* passed, not more than 3
RECURSIVE CleanupFrom_at_grace(_, _, _)
CleanupFrom_at_grace(fl, k, t) ==
    IF k > Len(fl) THEN [keep |-> <<>>, landed |-> <<>>, departed |-> <<>>]
    ELSE LET f == fl[k]
             rest == CleanupFrom_at_grace(fl, k + 1, t)
         IN  IF f.status \in {LANDED, DEPARTED}
             THEN IF ~f.counted
                  THEN [keep |-> <<[f EXCEPT !.counted = TRUE, !.done_time = t]>> \o rest.keep,
                        landed |-> IF f.status = LANDED
                                   THEN <<to_history_data(f)>> \o rest.landed ELSE rest.landed,
                        departed |-> IF f.status = DEPARTED
                                     THEN <<to_history_data(f)>> \o rest.departed
                                     ELSE rest.departed]
                  ELSE IF t - f.done_time >= 3
                  THEN rest
                  ELSE [rest EXCEPT !.keep = <<f>> \o @]
             ELSE [rest EXCEPT !.keep = <<f>> \o @]

\* the loop body of cleanup_flights for the flights from k on: the flights
\* that stay (marked when newly counted) and the history records to add
RECURSIVE CleanupFrom(_, _, _)
CleanupFrom(fl, k, t) ==
    IF k > Len(fl) THEN [keep |-> <<>>, landed |-> <<>>, departed |-> <<>>]
    ELSE LET f == fl[k]
             rest == CleanupFrom(fl, k + 1, t)
         IN  IF f.status \in {LANDED, DEPARTED}
             THEN IF ~f.counted
                  THEN [keep |-> <<[f EXCEPT !.counted = TRUE, !.done_time = t]>> \o rest.keep,
                        landed |-> IF f.status = LANDED
                                   THEN <<to_history_data(f)>> \o rest.landed ELSE rest.landed,
                        departed |-> IF f.status = DEPARTED
                                     THEN <<to_history_data(f)>> \o rest.departed
                                     ELSE rest.departed]
                  ELSE IF t - f.done_time > 3
                  THEN rest
                  ELSE [rest EXCEPT !.keep = <<f>> \o @]
             ELSE [rest EXCEPT !.keep = <<f>> \o @]

\* ATCSimulator.cleanup_flights on the flights fl at time t
cleanup_flights(fl, t) ==
    LET r == CleanupFrom(fl, 1, t)
    IN  [flights |-> r.keep,
         landed_count |-> landed_count + Len(r.landed),
         departed_count |-> departed_count + Len(r.departed),
         landed_flights |-> landed_flights \o r.landed,
         departed_flights |-> departed_flights \o r.departed]

\* ATCSimulator.update(dt) past its failed test: every flight updated, then
\* check_separations, then cleanup_flights at time t
UpdateBody(dt, t) ==
    LET fl  == UpdateAll(flights, 1, dt, t)
        sep == check_separations(fl)
        cln == cleanup_flights(fl, t)
    IN  [flights |-> cln.flights, failed |-> sep.failed,
         failure_reason |-> sep.failure_reason, collision_pair |-> sep.collision_pair,
         near_miss_count |-> sep.near_miss_count,
         active_near_misses |-> sep.active_near_misses,
         landed_count |-> cln.landed_count, departed_count |-> cln.departed_count,
         landed_flights |-> cln.landed_flights, departed_flights |-> cln.departed_flights]

\* update without the test of failed
update_while_failed(dt, t) == UpdateBody(dt, t)

\* ATCSimulator.update(dt) at time t; dt already carries speed_multiplier
update(dt, t) ==
    IF failed
    THEN [flights |-> flights, failed |-> failed,
          failure_reason |-> failure_reason, collision_pair |-> collision_pair,
          near_miss_count |-> near_miss_count,
          active_near_misses |-> active_near_misses,
          landed_count |-> landed_count, departed_count |-> departed_count,
          landed_flights |-> landed_flights, departed_flights |-> departed_flights]
    ELSE UpdateBody(dt, t)

\* one iteration of ATCSimulator.run: e seconds have passed since the last
\* one, update(dt) runs with dt = e * speed_multiplier
Tick(e) ==
    /\ running
    /\ now' = now + e
    /\ n_ticks' = n_ticks + 1
    /\ last_op' = [op |-> "update", callsign |-> None, success |-> ~failed, message |-> None]
    /\ \E u \in {update((e * speed_multiplier) \div 2, now + e)} :
           /\ flights' = u.flights
           /\ failed' = u.failed
           /\ failure_reason' = u.failure_reason
           /\ collision_pair' = u.collision_pair
           /\ near_miss_count' = u.near_miss_count
           /\ active_near_misses' = u.active_near_misses
           /\ landed_count' = u.landed_count
           /\ departed_count' = u.departed_count
           /\ landed_flights' = u.landed_flights
           /\ departed_flights' = u.departed_flights
    /\ UNCHANGED <<speed_multiplier, running, n_cmds, n_spawns>>
    /\ UNCHANGED schedVars
    /\ UNCHANGED loopVars

\* ATCSimulator.command_flight
CommandFlight(callsign, command) ==
    /\ IF failed
       THEN /\ last_op' = [op |-> "command_flight", callsign |-> callsign,
                           success |-> FALSE, message |-> "Simulation has failed"]
            /\ UNCHANGED <<flights, n_cmds>>
       ELSE IF callsign \in Live
       THEN \E r \in {apply_command(FlightOf(callsign), command)} :
                /\ flights' = [i \in 1..Len(flights) |->
                                 IF flights[i].callsign = callsign THEN r.flight
                                 ELSE flights[i]]
                /\ last_op' = [op |-> "command_flight", callsign |-> callsign,
                               success |-> r.result.success, message |-> r.result.message,
                               command |-> command]
                /\ n_cmds' = n_cmds + 1
       ELSE /\ last_op' = [op |-> "command_flight", callsign |-> callsign,
                           success |-> FALSE, message |-> "not found"]
            /\ UNCHANGED <<flights, n_cmds>>
    /\ UNCHANGED <<failed, failure_reason, collision_pair, speed_multiplier,
                   landed_count, departed_count, near_miss_count, landed_flights,
                   departed_flights, active_near_misses, running, now, n_ticks, n_spawns>>
    /\ UNCHANGED schedVars
    /\ UNCHANGED loopVars

\* ATCSimulator.spawn_arrival: the random draws are the parameters
SpawnArrival(callsign, entry, offset_angle, offset_dist, aircraft_type, altitude) ==
    /\ callsign \notin Live
    /\ IF failed
       THEN /\ last_op' = [op |-> "spawn_arrival", callsign |-> None,
                           success |-> FALSE, message |-> None]
            /\ UNCHANGED <<flights, n_spawns>>
       ELSE LET waypoint == WAYPOINTS[entry]
                spawn_x == waypoint.x + RoundDiv(offset_dist * CosDeg(offset_angle), 1000)
                spawn_y == waypoint.y + RoundDiv(offset_dist * SinDeg(offset_angle), 1000)
                heading == Bearing(waypoint.x - spawn_x, waypoint.y - spawn_y)
                f0 == NewFlight(callsign, ARRIVAL, aircraft_type, spawn_x, spawn_y, altitude,
                                (AIRCRAFT_TYPES[aircraft_type].cruise_speed * 7) \div 10, heading)
                f  == [f0 EXCEPT !.target_waypoint = entry, !.current_waypoint = entry,
                                 !.target_altitude = waypoint.altitude_restriction,
                                 !.target_speed = 250]
            IN  /\ flights' = Append(flights, f)
                /\ last_op' = [op |-> "spawn_arrival", callsign |-> callsign,
                               success |-> TRUE, message |-> None]
                /\ n_spawns' = n_spawns + 1
    /\ UNCHANGED <<failed, failure_reason, collision_pair, speed_multiplier, landed_count,
                   departed_count, near_miss_count, landed_flights, departed_flights,
                   active_near_misses, running, now, n_ticks, n_cmds>>
    /\ UNCHANGED schedVars
    /\ UNCHANGED loopVars

\* ATCSimulator.spawn_departure
SpawnDeparture(callsign, aircraft_type) ==
    /\ callsign \notin Live
    /\ IF failed
       THEN /\ last_op' = [op |-> "spawn_departure", callsign |-> None,
                           success |-> FALSE, message |-> None]
            /\ UNCHANGED <<flights, n_spawns>>
       ELSE LET f == NewFlight(callsign, DEPARTURE, aircraft_type, 100, -200,
                               AIRPORT.elevation, 0, AIRPORT.runway_heading)
            IN  /\ flights' = Append(flights, f)
                /\ last_op' = [op |-> "spawn_departure", callsign |-> callsign,
                               success |-> TRUE, message |-> None]
                /\ n_spawns' = n_spawns + 1
    /\ UNCHANGED <<failed, failure_reason, collision_pair, speed_multiplier, landed_count,
                   departed_count, near_miss_count, landed_flights, departed_flights,
                   active_near_misses, running, now, n_ticks, n_cmds>>
    /\ UNCHANGED schedVars
    /\ UNCHANGED loopVars

\* reset leaving the failure of a failed simulation in place
Reset_keeps_failure ==
    /\ flights' = <<>>
    /\ landed_count' = 0
    /\ departed_count' = 0
    /\ near_miss_count' = 0
    /\ landed_flights' = <<>>
    /\ departed_flights' = <<>>
    /\ active_near_misses' = {}
    /\ running' = TRUE
    /\ last_op' = [op |-> "reset", callsign |-> None, success |-> TRUE, message |-> None]
    /\ UNCHANGED <<failed, failure_reason, collision_pair>>
    /\ UNCHANGED <<speed_multiplier, now, n_ticks, n_cmds, n_spawns>>
    /\ UNCHANGED schedVars
    /\ UNCHANGED loopVars

\* ATCSimulator.reset
Reset ==
    /\ flights' = <<>>
    /\ failed' = FALSE
    /\ failure_reason' = None
    /\ landed_count' = 0
    /\ departed_count' = 0
    /\ near_miss_count' = 0
    /\ collision_pair' = <<>>
    /\ landed_flights' = <<>>
    /\ departed_flights' = <<>>
    /\ active_near_misses' = {}
    /\ running' = TRUE
    /\ last_op' = [op |-> "reset", callsign |-> None, success |-> TRUE, message |-> None]
    /\ UNCHANGED <<speed_multiplier, now, n_ticks, n_cmds, n_spawns>>
    /\ UNCHANGED schedVars
    /\ UNCHANGED loopVars

\* ATCSimulator.set_speed (multiplier in halves)
SetSpeed(multiplier) ==
    /\ speed_multiplier' = Max(1, Min(20, multiplier))
    /\ last_op' = [op |-> "set_speed", callsign |-> None, success |-> TRUE, message |-> None]
    /\ UNCHANGED <<flights, failed, failure_reason, collision_pair,
                   landed_count, departed_count, near_miss_count, landed_flights,
                   departed_flights, active_near_misses, running, now,
                   n_ticks, n_cmds, n_spawns>>
    /\ UNCHANGED schedVars
    /\ UNCHANGED loopVars

----------------------------------------------------------------------------
(* FlightScheduler: a heapq list of ScheduleEntry *)

LANDING_OP == "landing"
TAKEOFF_OP == "takeoff"
MAYDAY_OP  == "mayday"

SlotInfo(start_time, end_time) == [start_time |-> start_time, end_time |-> end_time]

ScheduleEntry(value, flight, slot_info, used_for) ==
    [value |-> value, flight |-> flight, slot_info |-> slot_info, used_for |-> used_for]

\* the comparison turned around
lt_reversed(self, other) == self.value > other.value

\* ScheduleEntry.__lt__
lt(self, other) == self.value < other.value

\* heapq._siftdown(heap, startpos, pos) with newitem held aside; positions from 0
RECURSIVE _siftdown(_, _, _, _)
_siftdown(heap, startpos, pos, newitem) ==
    IF pos > startpos /\ lt(newitem, heap[((pos - 1) \div 2) + 1])
    THEN _siftdown([heap EXCEPT ![pos + 1] = heap[((pos - 1) \div 2) + 1]],
                   startpos, (pos - 1) \div 2, newitem)
    ELSE [heap EXCEPT ![pos + 1] = newitem]

\* the while loop of heapq._siftup: the smaller child moves up until a leaf
RECURSIVE SiftupLoop(_, _)
SiftupLoop(heap, pos) ==
    LET endpos   == Len(heap)
        leftpos  == 2 * pos + 1
        rightpos == leftpos + 1
        childpos == IF rightpos < endpos /\ ~lt(heap[leftpos + 1], heap[rightpos + 1])
                    THEN rightpos ELSE leftpos
    IN  IF leftpos < endpos
        THEN SiftupLoop([heap EXCEPT ![pos + 1] = heap[childpos + 1]], childpos)
        ELSE [heap |-> heap, pos |-> pos]

\* heapq._siftup(heap, pos)
_siftup(heap, pos) ==
    LET r == SiftupLoop(heap, pos)
    IN  _siftdown(r.heap, pos, r.pos, heap[pos + 1])

\* heapq.heappush(heap, item)
heappush(heap, item) == _siftdown(Append(heap, item), 0, Len(heap), item)

\* heapq.heappop(heap) on a non-empty heap: the item returned and the heap left
heappop(heap) ==
    LET lastelt == heap[Len(heap)]
        rest    == SubSeq(heap, 1, Len(heap) - 1)
    IN  IF rest # <<>>
        THEN [item |-> heap[1], heap |-> _siftup([rest EXCEPT ![1] = lastelt], 0)]
        ELSE [item |-> lastelt, heap |-> rest]

\* FlightScheduler.add_landing
add_landing(heap, flight, landing_time, slot_info) ==
    heappush(heap, ScheduleEntry(landing_time, flight, slot_info, LANDING_OP))

\* FlightScheduler.add_takeoff
add_takeoff(heap, flight, scheduled_time, slot_info) ==
    heappush(heap, ScheduleEntry(scheduled_time, flight, slot_info, TAKEOFF_OP))

\* the emergency filed under its slot's start time instead of -1
add_mayday_at_slot_start(heap, flight, slot_info) ==
    heappush(heap, ScheduleEntry(slot_info.start_time, flight, slot_info, MAYDAY_OP))

\* FlightScheduler.add_mayday
add_mayday(heap, flight, slot_info) ==
    heappush(heap, ScheduleEntry(-1, flight, slot_info, MAYDAY_OP))

\* FlightScheduler.get_next_flight: item is <<entry>>, or <<>> for None
get_next_flight(heap) ==
    IF heap # <<>>
    THEN [item |-> <<heappop(heap).item>>, heap |-> heappop(heap).heap]
    ELSE [item |-> <<>>, heap |-> heap]

----------------------------------------------------------------------------
(* Runway *)

AVAILABLE   == "available"
OCCUPIED    == "occupied"
MAINTENANCE == "maintenance"

\* Runway.__init__ (current_flight is <<>> for None, <<flight>> otherwise);
\* occupancy holds the windows reserved on the runway, none at first
NewRunway(runway_id) ==
    [runway_id |-> runway_id, status |-> AVAILABLE, current_flight |-> <<>>,
     operation_start_time |-> NoTime, operation_end_time |-> NoTime,
     occupancy |-> <<>>]

\* assign_flight refusing only an OCCUPIED runway
assign_flight_unless_occupied(rw, flight, start_time, end_time) ==
    IF rw.status = OCCUPIED
    THEN [runway |-> rw, result |-> FALSE]
    ELSE [runway |-> [rw EXCEPT !.status = OCCUPIED,
                                !.current_flight = <<flight>>,
                                !.operation_start_time = start_time,
                                !.operation_end_time = end_time],
          result |-> TRUE]

\* Runway.assign_flight: the runway afterwards and the value returned
assign_flight(rw, flight, start_time, end_time) ==
    IF rw.status # AVAILABLE
    THEN [runway |-> rw, result |-> FALSE]
    ELSE [runway |-> [rw EXCEPT !.status = OCCUPIED,
                                !.current_flight = <<flight>>,
                                !.operation_start_time = start_time,
                                !.operation_end_time = end_time],
          result |-> TRUE]

\* release_runway leaving the operation window in place
release_runway_keeps_window(rw) ==
    [rw EXCEPT !.status = AVAILABLE, !.current_flight = <<>>]

\* Runway.release_runway
release_runway(rw) ==
    [rw EXCEPT !.status = AVAILABLE, !.current_flight = <<>>,
               !.operation_start_time = NoTime, !.operation_end_time = NoTime]

\* Runway.complete_landing_or_takeoff
complete_landing_or_takeoff(rw) ==
    IF rw.current_flight # <<>> THEN release_runway(rw) ELSE rw

\* Runway.set_maintenance
set_maintenance(rw) == [rw EXCEPT !.status = MAINTENANCE]

\* Runway.get_runway_details at time t: the state change it makes
\* (a None or 0 end time is falsy)
get_runway_details(rw, t) ==
    IF rw.operation_end_time # NoTime /\ rw.operation_end_time # 0
       /\ rw.operation_end_time <= t
    THEN complete_landing_or_takeoff(rw)
    ELSE rw

----------------------------------------------------------------------------
(* Airport *)

RUNWAY_IDS == <<"R1", "R2">>

\* Airport.__init__, then add_runway for each runway
SchedInit ==
    /\ schedule_heap = <<>>
    /\ runways = [i \in 1..Len(RUNWAY_IDS) |-> NewRunway(RUNWAY_IDS[i])]
    /\ next_id = 0
    /\ popped = <<>>

\* the last AVAILABLE runway instead of the first
get_available_runway_last(rws) ==
    IF \E i \in 1..Len(rws) : rws[i].status = AVAILABLE
    THEN CHOOSE i \in 1..Len(rws) :
            /\ rws[i].status = AVAILABLE
            /\ \A j \in (i + 1)..Len(rws) : rws[j].status # AVAILABLE
    ELSE 0

\* Airport.get_available_runway: index of the first AVAILABLE runway, 0 for None
get_available_runway(rws) ==
    IF \E i \in 1..Len(rws) : rws[i].status = AVAILABLE
    THEN CHOOSE i \in 1..Len(rws) :
            /\ rws[i].status = AVAILABLE
            /\ \A j \in 1..(i - 1) : rws[j].status # AVAILABLE
    ELSE 0

\* the request put back on the schedule when no runway is AVAILABLE
process_next_flight_requeue(heap, rws) ==
    LET next_entry == get_next_flight(heap)
        k == get_available_runway(rws)
        a == assign_flight(rws[k], next_entry.item[1].flight,
                           next_entry.item[1].slot_info.start_time,
                           next_entry.item[1].slot_info.end_time)
    IN  IF next_entry.item = <<>>
        THEN [heap |-> next_entry.heap, runways |-> rws, popped |-> <<>>, result |-> FALSE]
        ELSE IF k = 0
        THEN [heap |-> heappush(next_entry.heap, next_entry.item[1]), runways |-> rws,
              popped |-> next_entry.item, result |-> FALSE]
        ELSE [heap |-> next_entry.heap, runways |-> [rws EXCEPT ![k] = a.runway],
              popped |-> next_entry.item, result |-> a.result]

\* Airport.process_next_flight: the schedule and runways afterwards, the
\* entry taken from the schedule and the value returned
process_next_flight(heap, rws) ==
    LET next_entry == get_next_flight(heap)
        k == get_available_runway(rws)
        a == assign_flight(rws[k], next_entry.item[1].flight,
                           next_entry.item[1].slot_info.start_time,
                           next_entry.item[1].slot_info.end_time)
    IN  IF next_entry.item = <<>>
        THEN [heap |-> next_entry.heap, runways |-> rws, popped |-> <<>>, result |-> FALSE]
        ELSE IF k = 0
        THEN [heap |-> next_entry.heap, runways |-> rws, popped |-> next_entry.item,
              result |-> FALSE]
        ELSE [heap |-> next_entry.heap, runways |-> [rws EXCEPT ![k] = a.runway],
              popped |-> next_entry.item, result |-> a.result]

SimUnchanged ==
    UNCHANGED <<flights, failed, failure_reason, collision_pair,
                speed_multiplier, landed_count, departed_count, near_miss_count,
                landed_flights, departed_flights, active_near_misses, running,
                n_ticks, n_cmds, n_spawns, run_task, n_stops>>

\* Airport.schedule_landing; the flight is the next one not yet scheduled
ScheduleLanding(landing_time, duration) ==
    /\ schedule_heap' = add_landing(schedule_heap, next_id + 1, landing_time,
                                    SlotInfo(landing_time, landing_time + duration))
    /\ next_id' = next_id + 1
    /\ last_op' = [op |-> "schedule_landing", callsign |-> None, success |-> TRUE, message |-> None]
    /\ UNCHANGED <<runways, popped, now>>
    /\ SimUnchanged

\* Airport.schedule_takeoff
ScheduleTakeoff(takeoff_time, duration) ==
    /\ schedule_heap' = add_takeoff(schedule_heap, next_id + 1, takeoff_time,
                                    SlotInfo(takeoff_time, takeoff_time + duration))
    /\ next_id' = next_id + 1
    /\ last_op' = [op |-> "schedule_takeoff", callsign |-> None, success |-> TRUE, message |-> None]
    /\ UNCHANGED <<runways, popped, now>>
    /\ SimUnchanged

\* Airport.schedule_mayday: the slot starts at the current time
ScheduleMayday(duration) ==
    /\ schedule_heap' = add_mayday(schedule_heap, next_id + 1, SlotInfo(now, now + duration))
    /\ next_id' = next_id + 1
    /\ last_op' = [op |-> "schedule_mayday", callsign |-> None, success |-> TRUE, message |-> None]
    /\ UNCHANGED <<runways, popped, now>>
    /\ SimUnchanged

\* a call of FlightScheduler.get_next_flight
GetNextFlight ==
    /\ \E r \in {get_next_flight(schedule_heap)} :
           /\ popped' = r.item
           /\ schedule_heap' = r.heap
    /\ last_op' = [op |-> "get_next_flight", callsign |-> None,
                   success |-> (schedule_heap # <<>>), message |-> None]
    /\ UNCHANGED <<runways, next_id, now>>
    /\ SimUnchanged

\* a call of Airport.process_next_flight; last_op.success is the value returned
ProcessNextFlight ==
    /\ \E r \in {process_next_flight(schedule_heap, runways)} :
           /\ popped' = r.popped
           /\ schedule_heap' = r.heap
           /\ runways' = r.runways
           /\ last_op' = [op |-> "process_next_flight", callsign |-> None,
                          success |-> r.result, message |-> None]
    /\ UNCHANGED <<next_id, now>>
    /\ SimUnchanged

\* Runway.release_runway on runway i
ReleaseRunway(i) ==
    /\ runways' = [runways EXCEPT ![i] = release_runway(runways[i])]
    /\ last_op' = [op |-> "release_runway", callsign |-> None, success |-> TRUE, message |-> None]
    /\ UNCHANGED <<schedule_heap, next_id, popped, now>>
    /\ SimUnchanged

\* Runway.set_maintenance on runway i
SetMaintenance(i) ==
    /\ runways' = [runways EXCEPT ![i] = set_maintenance(runways[i])]
    /\ last_op' = [op |-> "set_maintenance", callsign |-> None, success |-> TRUE, message |-> None]
    /\ UNCHANGED <<schedule_heap, next_id, popped, now>>
    /\ SimUnchanged

\* Runway.get_runway_details on runway i, the clock having moved on by d
GetRunwayDetails(i, d) ==
    /\ now' = now + d
    /\ runways' = [runways EXCEPT ![i] = get_runway_details(runways[i], now + d)]
    /\ last_op' = [op |-> "get_runway_details", callsign |-> None, success |-> TRUE, message |-> None]
    /\ UNCHANGED <<schedule_heap, next_id, popped>>
    /\ SimUnchanged

----------------------------------------------------------------------------
(* Specifications *)

\* run() has set self.running and stands at its while test for the first time
LoopInit ==
    /\ run_task = [pc |-> "while", idx |-> 0, dt |-> 0, steps |-> <<>>,
                   live |-> 0, failed |-> FALSE]
    /\ n_stops = 0

Init == SimInit /\ SchedInit /\ LoopInit

\* ticks, commands applied and flights spawned in one run of the simulator;
\* flights are spawned before tick SpawnWindow
MaxTicks    == 6
MaxCmds     == 2
MaxSpawns   == 2
SpawnWindow == 1

\* seconds between two iterations of run()
ElapsedSet == {165}

\* the draws of spawn_arrival and spawn_departure tried
ArrivalEntries   == {"SOUTH"}
ArrivalAngles    == {90}
ArrivalDists     == {3000}
ArrivalTypes     == {"B77W"}
ArrivalAltitudes == {8000, 8600}
DepartureTypes   == {"B738"}

\* the controller's commands tried
CmdApproach == FlightCommand(<<1500>>, <<160>>, <<>>, <<"FINAL">>, <<>>, <<>>)
CmdClimb    == FlightCommand(<<12000>>, <<>>, <<>>, <<>>, <<>>, <<>>)
CmdLand     == FlightCommand(<<>>, <<>>, <<>>, <<>>, <<TRUE>>, <<>>)
CmdTakeoff  == FlightCommand(<<>>, <<>>, <<>>, <<>>, <<>>, <<TRUE>>)
CmdMenu     == {CmdApproach, CmdClimb, CmdLand, CmdTakeoff}

\* generate_callsign: the callsigns in the order the generator yields them,
\* and the first of them that no live flight carries
GENERATED == <<"DAL200", "AAL100", "UAL300">>
Fresh == {GENERATED[i] : i \in {k \in 1..Len(GENERATED) :
                                    /\ GENERATED[k] \notin Live
                                    /\ \A j \in 1..(k - 1) : GENERATED[j] \in Live}}

\* spawning is tried at any time once the simulation has failed
MaySpawn == failed \/ (n_spawns < MaxSpawns /\ n_ticks < SpawnWindow)

Next ==
    \/ n_ticks < MaxTicks /\ \E e \in ElapsedSet : Tick(e)
    \/ (failed \/ n_cmds < MaxCmds)
         /\ \E c \in CallsignSet, cmd \in CmdMenu : CommandFlight(c, cmd)
    \/ MaySpawn
         /\ \E c \in Fresh, en \in ArrivalEntries, an \in ArrivalAngles,
               di \in ArrivalDists, ty \in ArrivalTypes, al \in ArrivalAltitudes :
               SpawnArrival(c, en, an, di, ty, al)
    \/ MaySpawn /\ \E c \in Fresh, ty \in DepartureTypes : SpawnDeparture(c, ty)
    \/ Reset

Spec == Init /\ [][Next]_vars

\* flight states around the thresholds of LANDING_RULES: an arrival due south
\* of the field, on final once it has passed FINAL below 2000 ft
BoundaryAltitudes == {LANDING_RULES.max_altitude, LANDING_RULES.max_altitude + 1}
BoundarySpeeds    == {LANDING_RULES.min_speed - 1, LANDING_RULES.min_speed,
                      LANDING_RULES.max_speed, LANDING_RULES.max_speed + 1}
BoundaryDistances == {LANDING_RULES.max_distance, LANDING_RULES.max_distance + 1}
BoundaryPassed    == {<<>>, <<"FINAL">>, <<"SOUTH", "ECHO">>}

BoundaryFlight(altitude, speed, distance, passed) ==
    [NewFlight("DAL200", ARRIVAL, "B738", 0, -distance, altitude, speed, 180)
        EXCEPT !.passed_waypoints = passed,
               !.status = IF SeqContains(passed, "FINAL") THEN ON_FINAL ELSE APPROACHING,
               !.target_altitude = 1000, !.target_speed = speed]

LandingStart ==
    /\ flights \in {<<BoundaryFlight(al, sp, di, pa)>> :
                       al \in BoundaryAltitudes, sp \in BoundarySpeeds,
                       di \in BoundaryDistances, pa \in BoundaryPassed}
    /\ failed = FALSE
    /\ failure_reason = None
    /\ collision_pair = <<>>
    /\ speed_multiplier = 2
    /\ landed_count = 0
    /\ departed_count = 0
    /\ near_miss_count = 0
    /\ landed_flights = <<>>
    /\ departed_flights = <<>>
    /\ active_near_misses = {}
    /\ running = TRUE
    /\ now = 0
    /\ last_op = [op |-> "init", callsign |-> None, success |-> TRUE, message |-> None]
    /\ n_ticks = 0 /\ n_cmds = 0 /\ n_spawns = 0
    /\ SchedInit
    /\ LoopInit

LandingNext ==
    n_cmds < MaxCmds /\ \E c \in CallsignSet, cmd \in CmdMenu : CommandFlight(c, cmd)

LandingSpec == LandingStart /\ [][LandingNext]_vars

\* commands applied in one run of CommandSpec
MaxFieldCmds == 2

\* the values tried for each field of a command, <<>> being the field absent;
\* headings outside [0, 360) and a waypoint missing from the registry included
FieldAltitudes == {<<>>, <<3000>>}
FieldSpeeds    == {<<>>, <<200>>}
FieldHeadings  == {<<>>, <<360>>, <<-90>>}
FieldWaypoints == {<<>>, <<"BASE">>, <<"NOWHERE">>}
FieldLand      == {<<>>, <<TRUE>>, <<FALSE>>}
FieldTakeoff   == {<<>>, <<TRUE>>}

FieldCmds ==
    {FlightCommand(al, sp, he, wp, la, ta) :
        al \in FieldAltitudes, sp \in FieldSpeeds, he \in FieldHeadings,
        wp \in FieldWaypoints, la \in FieldLand, ta \in FieldTakeoff}

\* commands of every combination of fields
CommandNext ==
    n_cmds < MaxFieldCmds /\ \E c \in Live, cmd \in FieldCmds : CommandFlight(c, cmd)

\* the flights of LandingStart at the distance threshold, one knot too slow
\* or at the speed limit
CommandStart ==
    /\ LandingStart
    /\ flights[1].y = -LANDING_RULES.max_distance
    /\ flights[1].speed \in {LANDING_RULES.min_speed - 1, LANDING_RULES.max_speed}

CommandSpec == CommandStart /\ [][CommandNext]_vars

\* ---- short final, terminal statuses and the grace period, second by second ----

\* seconds between two iterations of run() here, and the seconds of clock
\* followed once the program holds a time stamp
LiveElapsed == {1}
Horizon     == 60

\* an arrival on final that has passed FINAL, not yet cleared to land
FinalFlight(callsign, x, y, heading) ==
    [NewFlight(callsign, ARRIVAL, "B738", x, y, 1000, 140, heading)
        EXCEPT !.passed_waypoints = <<"FINAL">>, !.status = ON_FINAL]

\* two miles out heading for the runway, and abeam the runway at 0.74 nm
StraightIn == FinalFlight("DAL200", 0, -2000, 0)
Abeam      == FinalFlight("DAL200", 740, 0, 0)

\* a departure climbing out at 6000 ft, one mile short of NORTH
ClimbingOut ==
    [NewFlight("AAL100", DEPARTURE, "B738", 0, 24000, 6000, 180, 0)
        EXCEPT !.status = DEPARTING, !.cleared_for_takeoff = TRUE,
               !.target_waypoint = "NORTH", !.current_waypoint = "NORTH",
               !.passed_waypoints = <<"RUNWAY">>, !.gate_time = 61]

\* two departures level at 6000 ft on opposite headings, 4.3 nm apart
Eastbound ==
    [NewFlight("AAL100", DEPARTURE, "B738", 3000, 10000, 6000, 180, 90)
        EXCEPT !.status = DEPARTING, !.cleared_for_takeoff = TRUE,
               !.passed_waypoints = <<"RUNWAY">>, !.gate_time = 61]
Westbound ==
    [NewFlight("UAL300", DEPARTURE, "B738", 7300, 10000, 6000, 180, 270)
        EXCEPT !.status = DEPARTING, !.cleared_for_takeoff = TRUE,
               !.passed_waypoints = <<"RUNWAY">>, !.gate_time = 61]

LiveStart ==
    /\ flights \in {<<StraightIn>>, <<Abeam>>, <<ClimbingOut, StraightIn>>,
                    <<StraightIn, Eastbound, Westbound>>}
    /\ failed = FALSE
    /\ failure_reason = None
    /\ collision_pair = <<>>
    /\ speed_multiplier = 2
    /\ landed_count = 0
    /\ departed_count = 0
    /\ near_miss_count = 0
    /\ landed_flights = <<>>
    /\ departed_flights = <<>>
    /\ active_near_misses = {}
    /\ running = TRUE
    /\ now = 0
    /\ last_op = [op |-> "init", callsign |-> None, success |-> TRUE, message |-> None]
    /\ n_ticks = 0 /\ n_cmds = 0 /\ n_spawns = 0
    /\ SchedInit
    /\ LoopInit

\* the program holds a time stamp: a completion time, the start of a grace
\* period, or a history record
HoldsTime(fl, landed, departed) ==
    \/ landed # <<>>
    \/ departed # <<>>
    \/ \E i \in 1..Len(fl) : fl[i].completed_at # NoTime \/ fl[i].done_time # NoTime

\* run() is able to iterate: running is set and the clock is inside the
\* horizon followed here; the iteration is counted modulo 2
LiveBeat ==
    /\ running
    /\ now < Horizon
    /\ n_ticks' = (n_ticks + 1) % 2

\* one iteration of ATCSimulator.run, as Tick, any number of times.  The code
\* reads the clock to stamp completions and to time the grace period, and
\* only differences of its readings matter: while the program holds no time
\* stamp, or has failed and reads the clock no more, the clock is left at its
\* value; otherwise it is followed up to Horizon.
LiveTick(e) ==
    /\ LiveBeat
    /\ last_op' = [op |-> "update", callsign |-> None, success |-> ~failed, message |-> None]
    /\ \E u \in {update((e * speed_multiplier) \div 2, now + e)} :
           /\ flights' = u.flights
           /\ failed' = u.failed
           /\ failure_reason' = u.failure_reason
           /\ collision_pair' = u.collision_pair
           /\ near_miss_count' = u.near_miss_count
           /\ active_near_misses' = u.active_near_misses
           /\ landed_count' = u.landed_count
           /\ departed_count' = u.departed_count
           /\ landed_flights' = u.landed_flights
           /\ departed_flights' = u.departed_flights
           /\ now' = IF ~u.failed /\ HoldsTime(u.flights, u.landed_flights, u.departed_flights)
                     THEN now + e ELSE now
    /\ UNCHANGED <<speed_multiplier, running, n_cmds, n_spawns>>
    /\ UNCHANGED schedVars
    /\ UNCHANGED loopVars

\* every arrival still flying holds its landing clearance
AllCleared ==
    \A i \in 1..Len(flights) :
        flights[i].flight_type = ARRIVAL /\ flights[i].status # LANDED
            => flights[i].cleared_to_land

\* the controller clears each arrival to land before the ticks run, and after
\* that speaks only to flights that have landed or departed
LiveCommand(c, cmd) ==
    /\ n_cmds < MaxCmds
    /\ IF FlightOf(c).status \in {LANDED, DEPARTED}
       THEN cmd \in {CmdApproach, CmdClimb}
       ELSE cmd = CmdLand /\ FlightOf(c).flight_type = ARRIVAL /\ ~FlightOf(c).cleared_to_land
    /\ CommandFlight(c, cmd)

LiveTicks == AllCleared /\ \E e \in LiveElapsed : LiveTick(e)

LiveNext ==
    \/ LiveTicks
    \/ \E c \in Live, cmd \in CmdMenu : LiveCommand(c, cmd)
    \/ Reset

\* run() iterates for as long as running is set: asyncio resumes the task
\* after each sleep.  LiveTicks is the only action that counts an iteration,
\* so a step of AllCleared /\ LiveBeat is a step of LiveTicks, and one is
\* possible exactly when the other is.
LiveSpec == LiveStart /\ [][LiveNext]_vars /\ WF_n_ticks(AllCleared /\ LiveBeat)

\* ---- ATCSimulator.run statement by statement, and the handlers around it ----

\* iterations of run() followed, calls of stop(), seconds between two
\* iterations, and the arguments of set_speed (in halves)
MaxLoopTicks == 3
MaxStops     == 1
LoopElapsed  == {1}
LoopSpeeds   == {4}

\* Flight.update returns before its kinematic part
ReturnsEarly(f) == f.status \in {LANDED, DEPARTED, AT_GATE}

\* the kinematic part of Flight.update: navigation, altitude, speed, heading,
\* position and waypoint passage, up to the call of _update_status
FlightMove(f, dt) ==
    LET f1 == IF f.target_waypoint # None THEN _navigate_to_waypoint(f) ELSE f
        f2 == UpdateAltitude(f1, dt)
        f3 == UpdateSpeed(f2, dt)
        f4 == UpdateHeading(f3, dt)
        f5 == UpdatePosition(f4, dt)
    IN  _check_waypoint_passage(f5)

\* the order of the statements of update() and run() with cleanup_flights
\* ahead of check_separations
StepAfter_cleanup_first(step) ==
    CASE step = "for"         -> "cleanup"
      [] step = "cleanup"     -> "separations"
      [] step = "separations" -> "callback"
      [] step = "callback"    -> "asleep"

\* the order of the statements of update() and run(): the loop over the
\* flights, check_separations, cleanup_flights, the callbacks, the sleep
StepAfter(step) ==
    CASE step = "for"         -> "separations"
      [] step = "separations" -> "cleanup"
      [] step = "cleanup"     -> "callback"
      [] step = "callback"    -> "asleep"

\* a handler runs whenever it is called, as on a thread of its own
Suspended_never_needed == TRUE

\* run() is suspended at an await, or has returned: the event loop runs
\* another coroutine only then
Suspended == run_task.pc \in {"asleep", "done"}

\* two departures level at 6000 ft on opposite headings, 0.35 nm apart
Closing ==
    <<[Eastbound EXCEPT !.x = 3000], [Westbound EXCEPT !.x = 3350]>>

LoopStart ==
    /\ flights = Closing
    /\ failed = FALSE
    /\ failure_reason = None
    /\ collision_pair = <<>>
    /\ speed_multiplier = 2
    /\ landed_count = 0
    /\ departed_count = 0
    /\ near_miss_count = 0
    /\ landed_flights = <<>>
    /\ departed_flights = <<>>
    /\ active_near_misses = {}
    /\ running = TRUE
    /\ now = 0
    /\ last_op = [op |-> "init", callsign |-> None, success |-> TRUE, message |-> None]
    /\ n_ticks = 0 /\ n_cmds = 0 /\ n_spawns = 0
    /\ SchedInit
    /\ LoopInit

\* a statement of run() leaves the handlers' counters and the scheduler alone
LoopFrame ==
    /\ last_op' = [op |-> "run", callsign |-> None, success |-> ~failed, message |-> None]
    /\ UNCHANGED <<speed_multiplier, running, n_cmds, n_spawns, n_stops>>
    /\ UNCHANGED schedVars

\* while self.running: the task, started or woken up, tests the flag; e
\* seconds have passed; update(dt) returns at once when failed is set
LoopWhile(e) ==
    /\ run_task.pc \in {"while", "asleep"}
    /\ IF running
       THEN /\ n_ticks < MaxLoopTicks
            /\ n_ticks' = n_ticks + 1
            /\ now' = now + e
            /\ run_task' = [pc |-> IF failed THEN "callback" ELSE "for", idx |-> 0,
                            dt |-> (e * speed_multiplier) \div 2, steps |-> <<>>,
                            live |-> Len(flights), failed |-> failed]
       ELSE /\ run_task' = [run_task EXCEPT !.pc = "done"]
            /\ UNCHANGED <<now, n_ticks>>
    /\ UNCHANGED <<flights, failed, failure_reason, collision_pair, landed_count,
                   departed_count, near_miss_count, landed_flights,
                   departed_flights, active_near_misses>>
    /\ LoopFrame

\* for flight in self.flights.values(): flight.update(dt), up to the call of
\* _update_status, or to the early return; past the last flight, the
\* statement after the loop
LoopFor ==
    /\ run_task.pc = "for"
    /\ IF run_task.idx < Len(flights)
       THEN LET k == run_task.idx + 1
            IN  IF ReturnsEarly(flights[k])
                THEN /\ flights' = [flights EXCEPT ![k] = FlightUpdate(@, run_task.dt, now)]
                     /\ run_task' = [run_task EXCEPT !.idx = k,
                                                     !.steps = Append(@, "update")]
                ELSE /\ flights' = [flights EXCEPT ![k] = FlightMove(@, run_task.dt)]
                     /\ run_task' = [run_task EXCEPT !.pc = "status"]
       ELSE /\ run_task' = [run_task EXCEPT !.pc = StepAfter("for")]
            /\ UNCHANGED flights
    /\ UNCHANGED <<failed, failure_reason, collision_pair, landed_count, departed_count,
                   near_miss_count, landed_flights, departed_flights,
                   active_near_misses, now, n_ticks>>
    /\ LoopFrame

\* self._update_status(), the last statement of Flight.update
LoopStatus ==
    /\ run_task.pc = "status"
    /\ flights' = [flights EXCEPT ![run_task.idx + 1] = _update_status(@, now)]
    /\ run_task' = [run_task EXCEPT !.pc = "for", !.idx = @ + 1,
                                    !.steps = Append(@, "update")]
    /\ UNCHANGED <<failed, failure_reason, collision_pair, landed_count, departed_count,
                   near_miss_count, landed_flights, departed_flights,
                   active_near_misses, now, n_ticks>>
    /\ LoopFrame

\* self.check_separations()
LoopSeparations ==
    /\ run_task.pc = "separations"
    /\ \E sep \in {check_separations(flights)} :
           /\ failed' = sep.failed
           /\ failure_reason' = sep.failure_reason
           /\ collision_pair' = sep.collision_pair
           /\ near_miss_count' = sep.near_miss_count
           /\ active_near_misses' = sep.active_near_misses
    /\ run_task' = [run_task EXCEPT !.pc = StepAfter("separations"),
                                    !.steps = Append(@, "separations")]
    /\ UNCHANGED <<flights, landed_count, departed_count, landed_flights,
                   departed_flights, now, n_ticks>>
    /\ LoopFrame

\* self.cleanup_flights()
LoopCleanup ==
    /\ run_task.pc = "cleanup"
    /\ \E cln \in {cleanup_flights(flights, now)} :
           /\ flights' = cln.flights
           /\ landed_count' = cln.landed_count
           /\ departed_count' = cln.departed_count
           /\ landed_flights' = cln.landed_flights
           /\ departed_flights' = cln.departed_flights
    /\ run_task' = [run_task EXCEPT !.pc = StepAfter("cleanup"),
                                    !.steps = Append(@, "cleanup")]
    /\ UNCHANGED <<failed, failure_reason, collision_pair, near_miss_count,
                   active_near_misses, now, n_ticks>>
    /\ LoopFrame

\* for callback in self.update_callbacks: await callback(...), then
\* await asyncio.sleep(0.1): the snapshot is handed over and the task suspends
LoopCallback ==
    /\ run_task.pc = "callback"
    /\ run_task' = [run_task EXCEPT !.pc = StepAfter("callback"),
                                    !.steps = Append(@, "callback")]
    /\ UNCHANGED <<flights, failed, failure_reason, collision_pair, landed_count,
                   departed_count, near_miss_count, landed_flights,
                   departed_flights, active_near_misses, now, n_ticks>>
    /\ LoopFrame

\* ATCSimulator.stop
Stop ==
    /\ n_stops < MaxStops
    /\ running' = FALSE
    /\ n_stops' = n_stops + 1
    /\ last_op' = [op |-> "stop", callsign |-> None, success |-> TRUE, message |-> None]
    /\ UNCHANGED <<flights, failed, failure_reason, collision_pair, speed_multiplier,
                   landed_count, departed_count, near_miss_count, landed_flights,
                   departed_flights, active_near_misses, now, n_ticks, n_cmds,
                   n_spawns, run_task>>
    /\ UNCHANGED schedVars

\* the coroutines of the event loop: run(), and the API and WebSocket
\* handlers, which run while run() is suspended
LoopNext ==
    \/ \E e \in LoopElapsed : LoopWhile(e)
    \/ LoopFor
    \/ LoopStatus
    \/ LoopSeparations
    \/ LoopCleanup
    \/ LoopCallback
    \/ Suspended /\ n_cmds < MaxCmds
         /\ \E c \in Live, cmd \in {CmdClimb, CmdTakeoff} : CommandFlight(c, cmd)
    \/ Suspended /\ n_spawns < MaxSpawns
         /\ \E c \in Fresh, ty \in DepartureTypes : SpawnDeparture(c, ty)
    \/ Suspended /\ n_spawns < MaxSpawns
         /\ \E c \in Fresh, en \in ArrivalEntries, an \in ArrivalAngles,
               di \in ArrivalDists, ty \in ArrivalTypes, al \in ArrivalAltitudes :
               SpawnArrival(c, en, an, di, ty, al)
    \/ Suspended /\ \E m \in LoopSpeeds : SetSpeed(m)
    \/ Suspended /\ Reset
    \/ Suspended /\ Stop

LoopSpec == LoopStart /\ [][LoopNext]_vars

\* requests inserted in one run of the scheduler
MaxRequests == 4
\* scheduled times (Unix timestamps) and operation lengths tried
LandingTimes == {1000, 1050}
TakeoffTimes == {0, 1050}
DurationSet  == {300}

RunwayIndex == 1..Len(RUNWAY_IDS)

SchedNext ==
    \/ next_id < MaxRequests /\ \E t \in LandingTimes, d \in DurationSet : ScheduleLanding(t, d)
    \/ next_id < MaxRequests /\ \E t \in TakeoffTimes, d \in DurationSet : ScheduleTakeoff(t, d)
    \/ next_id < MaxRequests /\ \E d \in DurationSet : ScheduleMayday(d)
    \/ GetNextFlight
    \/ ProcessNextFlight
    \/ \E i \in RunwayIndex : ReleaseRunway(i)
    \/ \E i \in RunwayIndex : SetMaintenance(i)

SchedSpec == Init /\ [][SchedNext]_vars

----------------------------------------------------------------------------
(* Properties of the scheduler *)

HeapEntries(heap) == {heap[i] : i \in 1..Len(heap)}

\* a step in which get_next_flight took an entry from the schedule
PopStep == Len(schedule_heap') < Len(schedule_heap)

\* C6: every get_next_flight on a non-empty schedule returns a pending entry
\* whose priority value is minimal among the pending entries and removes
\* exactly that entry; two pops in a row return non-decreasing values, so
\* entries with distinct times leave in increasing time order.
C6_MinimalPop ==
    [][PopStep =>
         /\ Len(popped') = 1
         /\ popped'[1] \in HeapEntries(schedule_heap)
         /\ \A e \in HeapEntries(schedule_heap) : popped'[1].value <= e.value
         /\ HeapEntries(schedule_heap') = HeapEntries(schedule_heap) \ {popped'[1]}
         /\ Len(schedule_heap') = Len(schedule_heap) - 1
         /\ (last_op.op \in {"get_next_flight", "process_next_flight"} /\ popped # <<>>
                => popped[1].value <= popped'[1].value)]_vars

\* C6 witness: a landing or takeoff was returned while an entry inserted
\* before it, with a later time, is still pending
C6_Witness ==
    /\ popped # <<>>
    /\ popped[1].used_for # MAYDAY_OP
    /\ Len(schedule_heap) >= 2
    /\ \E e \in HeapEntries(schedule_heap) :
           e.flight < popped[1].flight /\ e.value > popped[1].value

C8_FifoAmongEqual ==
    [][PopStep =>
         \A e \in HeapEntries(schedule_heap) :
             e.value = popped'[1].value => popped'[1].flight <= e.flight]_vars

\* C9: when process_next_flight takes a request and no runway is AVAILABLE,
\* it returns False, the schedule holds one entry fewer and does not contain
\* the request any more, and no runway changes.
C9_NoRunwayNoRequeue ==
    [][/\ last_op'.op = "process_next_flight"
       /\ schedule_heap # <<>>
       /\ \A i \in 1..Len(runways) : runways[i].status # AVAILABLE
       => /\ last_op'.success = FALSE
          /\ Len(schedule_heap') = Len(schedule_heap) - 1
          /\ popped' # <<>>
          /\ popped'[1] \notin HeapEntries(schedule_heap')
          /\ runways' = runways]_vars

\* C9 witness: process_next_flight has just returned False with a request in
\* hand, every runway being occupied or in maintenance
C9_Witness ==
    /\ last_op.op = "process_next_flight"
    /\ last_op.success = FALSE
    /\ popped # <<>>
    /\ \A i \in 1..Len(runways) : runways[i].status # AVAILABLE
    /\ \E i \in 1..Len(runways) : runways[i].status = OCCUPIED

----------------------------------------------------------------------------
(* Properties of the simulator *)

\* the flight with callsign c among fl
FlightIn(fl, c) == fl[CHOOSE i \in 1..Len(fl) : fl[i].callsign = c]
CallsignsIn(fl) == {fl[i].callsign : i \in 1..Len(fl)}

\* a step that is one call of ATCSimulator.update
TickStep == n_ticks' = n_ticks + 1

\* C1: once failed is true it stays true until reset(), and while it is true
\* no tick, command or spawn changes the live flights or any of their fields.
C1_FailedFreezes ==
    [][failed /\ last_op'.op # "reset" => failed' /\ flights' = flights]_vars

\* C1 witness: a tick has run on a failed simulation that holds flights
C1_Witness ==
    /\ failed
    /\ flights # <<>>
    /\ last_op.op = "update"
    /\ last_op.success = FALSE

\* the sorted callsign pairs of active flights of fl closer than h
\* horizontally (1/1000 nm) and v vertically (ft)
PairsWithin(fl, h, v) ==
    {SortedPair(fl[i].callsign, fl[j].callsign) : <<i, j>> \in
        {ij \in (1..Len(fl)) \X (1..Len(fl)) :
            /\ ij[1] < ij[2]
            /\ is_airborne_active(fl[ij[1]]) /\ is_airborne_active(fl[ij[2]])
            /\ DistLess(fl[ij[1]].x - fl[ij[2]].x, fl[ij[1]].y - fl[ij[2]].y, h)
            /\ Abs(fl[ij[1]].altitude - fl[ij[2]].altitude) < v}}

\* C2: a tick of a simulation that has not failed sets failed exactly when
\* some pair of active flights is closer than 0.15 nm and 500 ft after the
\* flights have moved, and collision_pair is then such a pair.
C2_CollisionDetected ==
    [][TickStep /\ ~failed =>
         /\ failed' <=> PairsWithin(flights', 150, 500) # {}
         /\ failed' => collision_pair' \in PairsWithin(flights', 150, 500)]_vars

\* C2 witness: the tick just run found two flights colliding
C2_Witness ==
    /\ failed
    /\ last_op.op = "update"
    /\ last_op.success
    /\ collision_pair \in PairsWithin(flights, 150, 500)

\* C3 as stated: in every tick near_miss_count grows by the number of pairs
\* that are within 0.5 nm and 1000 ft now and were not at the previous tick.
C3_CountsEveryEntry ==
    [][TickStep /\ ~failed =>
         near_miss_count' = near_miss_count
             + Cardinality(PairsWithin(flights', 500, 1000) \ active_near_misses)]_vars

\* C3 amended: in every tick that finds no collision, near_miss_count grows
\* by the number of pairs within 0.5 nm and 1000 ft now that were not within
\* them at the previous tick, and the conflicting set becomes the pairs within
\* them now; a tick that finds a collision counts no pair twice and leaves
\* the conflicting set as it was.
C3_CountsEntryUnlessCollision ==
    [][TickStep /\ ~failed =>
         /\ ~failed' =>
              /\ near_miss_count' = near_miss_count
                   + Cardinality(PairsWithin(flights', 500, 1000) \ active_near_misses)
              /\ active_near_misses' = PairsWithin(flights', 500, 1000)
         /\ failed' =>
              /\ near_miss_count' >= near_miss_count
              /\ near_miss_count' <= near_miss_count
                   + Cardinality((PairsWithin(flights', 500, 1000) \ active_near_misses)
                                   \ PairsWithin(flights', 150, 500))
              /\ active_near_misses' = active_near_misses]_vars

\* C3 witness: the one pair of flights has entered the thresholds, left them
\* and entered them again, and is within them now
C3_Witness ==
    /\ ~failed
    /\ Len(flights) = 2
    /\ near_miss_count = 2
    /\ active_near_misses = PairsWithin(flights, 500, 1000)
    /\ active_near_misses # {}

\* the four landing rules on flight f
LandingRulesHold(f) ==
    /\ f.altitude <= LANDING_RULES.max_altitude
    /\ LANDING_RULES.min_speed <= f.speed
    /\ f.speed <= LANDING_RULES.max_speed
    /\ DistLeq(f.x, f.y, LANDING_RULES.max_distance)
    /\ \E k \in 1..Len(f.passed_waypoints) :
           f.passed_waypoints[k] = LANDING_RULES.required_waypoint

\* C4: a command with clear_to_land = true sets cleared_to_land and reports
\* success exactly when the four landing rules hold on the flight's state at
\* the command (a value at a threshold passes, the next value beyond it does
\* not); otherwise it reports failure and leaves cleared_to_land as it was.
C4_GrantIffRules ==
    [][\A c \in CallsignsIn(flights) :
         ~failed /\ CommandFlight(c, CmdLand) =>
             IF LandingRulesHold(FlightIn(flights, c))
             THEN /\ FlightIn(flights', c).cleared_to_land
                  /\ last_op'.success
             ELSE /\ FlightIn(flights', c).cleared_to_land
                        = FlightIn(flights, c).cleared_to_land
                  /\ ~last_op'.success]_vars

\* C4 witness: clearance was granted to a flight with altitude, speed and
\* distance exactly at their thresholds
C4_Witness ==
    /\ last_op.op = "command_flight"
    /\ last_op.success
    /\ \E i \in 1..Len(flights) :
           /\ flights[i].callsign = last_op.callsign
           /\ flights[i].cleared_to_land
           /\ flights[i].altitude = LANDING_RULES.max_altitude
           /\ flights[i].speed = LANDING_RULES.max_speed
           /\ flights[i].x = 0 /\ flights[i].y = -LANDING_RULES.max_distance

\* C5: a flight's cleared_to_land goes from false to true only in a command
\* to that flight whose landing rules hold on the flight's state at the
\* command; a flight is never created with cleared_to_land true.
C5_ClearedOnlyByPassingCheck ==
    [][\A c \in CallsignsIn(flights') :
         IF c \in CallsignsIn(flights)
         THEN ~FlightIn(flights, c).cleared_to_land /\ FlightIn(flights', c).cleared_to_land
                => /\ last_op'.op = "command_flight"
                   /\ last_op'.callsign = c
                   /\ n_cmds' = n_cmds + 1
                   /\ LandingRulesHold(FlightIn(flights, c))
         ELSE ~FlightIn(flights', c).cleared_to_land]_vars

\* C5 witness: a command has just cleared a flight to land
C5_Witness ==
    /\ last_op.op = "command_flight"
    /\ last_op.success
    /\ last_op.callsign \in CallsignsIn(flights)
    /\ FlightIn(flights, last_op.callsign).cleared_to_land
    /\ FlightIn(flights, last_op.callsign).target_waypoint = "RUNWAY"

ArrivalSequence   == <<APPROACHING, ON_FINAL, LANDING, LANDED>>
DepartureSequence == <<AT_GATE, READY_FOR_TAKEOFF, TAKING_OFF, DEPARTING, DEPARTED>>
StatusSequence(f) == IF f.flight_type = ARRIVAL THEN ArrivalSequence ELSE DepartureSequence
StatusRank(f) == CHOOSE k \in 1..Len(StatusSequence(f)) : StatusSequence(f)[k] = f.status

\* C10: every flight's status is one of its kind's sequence, and in every
\* step a flight that stays keeps its kind and keeps its status or moves to
\* the next one of the sequence; LANDED and DEPARTED are never left.
C10_StatusForwardOnly ==
    [][/\ \A c \in CallsignsIn(flights') :
            \E k \in 1..Len(StatusSequence(FlightIn(flights', c))) :
                StatusSequence(FlightIn(flights', c))[k] = FlightIn(flights', c).status
       /\ \A c \in CallsignsIn(flights) \cap CallsignsIn(flights') :
            /\ FlightIn(flights', c).flight_type = FlightIn(flights, c).flight_type
            /\ StatusRank(FlightIn(flights', c)) \in
                 {StatusRank(FlightIn(flights, c)), StatusRank(FlightIn(flights, c)) + 1}
            /\ FlightIn(flights, c).status \in {LANDED, DEPARTED}
                 => FlightIn(flights', c).status = FlightIn(flights, c).status]_vars

\* C10 witness: an arrival has gone through its whole sequence
C10_Witness ==
    \E i \in 1..Len(flights) :
        /\ flights[i].flight_type = ARRIVAL
        /\ flights[i].status = LANDED
        /\ flights[i].counted

----------------------------------------------------------------------------
(* Properties of Flight.apply_command, field by field *)

\* a step in which Flight.apply_command ran; last_op' then holds the command
\* and the callsign of the flight
ApplyStep == n_cmds' = n_cmds + 1

\* C18: after any command that carries a heading, the flight's target_heading
\* is that heading modulo 360 and its target_waypoint is unset, whatever other
\* fields the command carries.
C18_HeadingClearsWaypoint ==
    [][ApplyStep /\ last_op'.command.heading # <<>> =>
         /\ FlightIn(flights', last_op'.callsign).target_heading
              = last_op'.command.heading[1] % 360
         /\ FlightIn(flights', last_op'.callsign).target_waypoint = None]_vars

\* the command without its waypoint field, and without its clear_to_land field
WithoutWaypoint(cmd) == [cmd EXCEPT !.waypoint = <<>>]
WithoutLand(cmd)     == [cmd EXCEPT !.clear_to_land = <<>>]

\* C19: a command naming a waypoint that is not in the registry reports
\* failure with the unknown-waypoint message, and leaves the flight as the
\* same command without the waypoint field leaves it.
C19_UnknownWaypointReported ==
    [][/\ ApplyStep
       /\ last_op'.command.waypoint # <<>>
       /\ last_op'.command.waypoint[1] \notin WaypointSet
       => /\ ~last_op'.success
          /\ last_op'.message = "Unknown waypoint"
          /\ FlightIn(flights', last_op'.callsign)
               = apply_command(FlightIn(flights, last_op'.callsign),
                               WithoutWaypoint(last_op'.command)).flight]_vars

\* the landing rules that flight f breaks, by the reason reported for each
FailingRules(f) ==
    (IF f.altitude > LANDING_RULES.max_altitude THEN {"altitude exceeds max"} ELSE {})
    \cup (IF f.speed < LANDING_RULES.min_speed THEN {"speed below min"} ELSE {})
    \cup (IF f.speed > LANDING_RULES.max_speed THEN {"speed exceeds max"} ELSE {})
    \cup (IF ~DistLeq(f.x, f.y, LANDING_RULES.max_distance)
          THEN {"distance exceeds max"} ELSE {})
    \cup (IF \A k \in 1..Len(f.passed_waypoints) :
                f.passed_waypoints[k] # LANDING_RULES.required_waypoint
          THEN {"must pass waypoint first"} ELSE {})

\* C20: a command with clear_to_land = true that the landing rules deny
\* reports failure, stores the reason of a rule the flight breaks, and leaves
\* target_waypoint, target_altitude, target_speed, target_heading, position,
\* altitude, speed, heading and status as the same command without the
\* clear_to_land field leaves them.
C20_DenialTouchesNothing ==
    [][/\ ApplyStep
       /\ last_op'.command.clear_to_land = <<TRUE>>
       /\ FailingRules(FlightIn(flights, last_op'.callsign)) # {}
       => LET f == FlightIn(flights, last_op'.callsign)
              g == FlightIn(flights', last_op'.callsign)
              h == apply_command(f, WithoutLand(last_op'.command)).flight
          IN  /\ ~last_op'.success
              /\ g.clearance_denial_reason \in FailingRules(f)
              /\ g.target_waypoint = h.target_waypoint
              /\ g.target_altitude = h.target_altitude
              /\ g.target_speed = h.target_speed
              /\ g.target_heading = h.target_heading
              /\ g.x = f.x /\ g.y = f.y
              /\ g.altitude = f.altitude
              /\ g.speed = f.speed
              /\ g.heading = f.heading
              /\ g.status = f.status]_vars

\* C20 witness: a command carrying an altitude, a waypoint and a denied
\* clear_to_land has been applied: altitude and waypoint are the new targets
\* and the denial reason is stored
C20_Witness ==
    /\ last_op.op = "command_flight"
    /\ ~last_op.success
    /\ last_op.message = "Cannot clear to land"
    /\ \E i \in 1..Len(flights) :
           /\ flights[i].callsign = last_op.callsign
           /\ flights[i].clearance_denial_reason \in FailingRules(flights[i])
           /\ flights[i].target_altitude = 3000
           /\ flights[i].target_waypoint = "BASE"

\* ---- Properties of the last mile: landing, completion, history, removal ----

HasStatus(c, st) ==
    \E i \in 1..Len(flights) : flights[i].callsign = c /\ flights[i].status \in st

\* arrival c is in the air holding its landing clearance
ClearedArrival(c) ==
    \E i \in 1..Len(flights) :
        /\ flights[i].callsign = c
        /\ flights[i].flight_type = ARRIVAL
        /\ flights[i].cleared_to_land
        /\ flights[i].status \notin {LANDING, LANDED}

\* C11: an arrival that has been granted its landing clearance and receives no
\* further command lands as the ticks continue (unless the simulation fails or
\* is reset first)
C11_ClearedArrivalLands ==
    \A c \in {StraightIn.callsign} :
        ClearedArrival(c) ~> (HasStatus(c, {LANDED}) \/ c \notin Live \/ failed)

\* the fields of a flight that C12 speaks of
Completion(f) ==
    [status |-> f.status, altitude |-> f.altitude, speed |-> f.speed,
     completed_at |-> f.completed_at]

\* C12: a LANDED flight is at field elevation with speed 0 and a completion
\* time; a flight has a completion time exactly when it is LANDED or DEPARTED;
\* and no later tick or command changes the status, altitude or speed of a
\* LANDED flight, or a completion time once set
C12_LandedIsFinal ==
    /\ [](\A i \in 1..Len(flights) :
            /\ flights[i].status = LANDED =>
                  /\ flights[i].altitude = AIRPORT.elevation
                  /\ flights[i].speed = 0
            /\ flights[i].completed_at # NoTime <=> flights[i].status \in {LANDED, DEPARTED})
    /\ [][\A c \in Live \cap CallsignsIn(flights') :
            /\ FlightOf(c).status = LANDED =>
                  Completion(FlightIn(flights', c)) = Completion(FlightOf(c))
            /\ FlightOf(c).completed_at # NoTime =>
                  FlightIn(flights', c).completed_at = FlightOf(c).completed_at]_vars

\* C12 witness: a LANDED flight that was told to climb after it landed, and
\* has been through a tick since
C12_Witness ==
    /\ last_op.op = "update"
    /\ \E i \in 1..Len(flights) :
          /\ flights[i].status = LANDED
          /\ flights[i].target_altitude = CmdClimb.altitude[1]
          /\ flights[i].altitude = AIRPORT.elevation
          /\ flights[i].counted

\* the callsigns of LiveStart
LiveCallsigns == {StraightIn.callsign, ClimbingOut.callsign, Westbound.callsign}

\* flight c is in the history of landed or departed flights
Recorded(c) ==
    \/ \E k \in 1..Len(landed_flights) : landed_flights[k].callsign = c
    \/ \E k \in 1..Len(departed_flights) : departed_flights[k].callsign = c

\* the live flights this step removes
Removed == Live \ CallsignsIn(flights')

\* a LANDED or DEPARTED flight leaves only recorded, counted and more than
\* 3 seconds after it was recorded
GraceKept ==
    \A c \in Removed :
        FlightOf(c).status \in {LANDED, DEPARTED} =>
            /\ FlightOf(c).counted
            /\ Recorded(c)
            /\ now' - FlightOf(c).done_time > 3

\* C13 as stated: every flight that reaches LANDED or DEPARTED is removed from
\* the live flights as the ticks continue, and only after it was recorded and
\* more than 3 seconds have passed since
C13_RemovedAfterGrace ==
    /\ \A c \in LiveCallsigns : HasStatus(c, {LANDED, DEPARTED}) ~> c \notin Live
    /\ [][GraceKept]_vars

\* C13 amended: every flight that reaches LANDED or DEPARTED is removed from
\* the live flights as the ticks continue on a simulation that has not failed;
\* and, short of a reset, only after it was recorded and more than 3 seconds
\* have passed since
C13_RemovedUnlessFailedOrReset ==
    /\ \A c \in LiveCallsigns :
          HasStatus(c, {LANDED, DEPARTED}) ~> (c \notin Live \/ failed)
    /\ [][last_op'.op # "reset" => GraceKept]_vars

\* C13 witness: the arrival has landed, was recorded, and a tick has removed it
C13_Witness ==
    /\ last_op.op = "update"
    /\ Recorded(StraightIn.callsign)
    /\ StraightIn.callsign \notin Live
    /\ ~failed

\* how many records of history h carry callsign c
Records(h, c) == Cardinality({k \in 1..Len(h) : h[k].callsign = c})

\* C14: a flight that is LANDED (DEPARTED) has exactly one record in the
\* landed (departed) history and none in the other, for as many ticks as it
\* stays; no flight has more than one record; each count is the length of its
\* history; and a command leaves counts and histories alone
C14_CountedOnce ==
    /\ [](/\ landed_count = Len(landed_flights)
          /\ departed_count = Len(departed_flights)
          /\ \A c \in LiveCallsigns :
                Records(landed_flights, c) + Records(departed_flights, c) <= 1
          /\ \A i \in 1..Len(flights) :
                /\ flights[i].status = LANDED =>
                      Records(landed_flights, flights[i].callsign) = 1
                /\ flights[i].status = DEPARTED =>
                      Records(departed_flights, flights[i].callsign) = 1)
    /\ [][last_op'.op = "command_flight" =>
             UNCHANGED <<landed_count, departed_count, landed_flights, departed_flights>>]_vars

\* C14 witness: a flight landed, was counted, and has been through two more
\* ticks since
C14_Witness ==
    /\ landed_count = 1
    /\ last_op.op = "update"
    /\ \E i \in 1..Len(flights) :
          /\ flights[i].status = LANDED
          /\ flights[i].counted
          /\ now - flights[i].done_time >= 2

\* ---- Properties of the run loop and the handlers around it ----

\* a step of a handler: run() stands where it stood
HandlerStep == run_task' = run_task

\* before the first flight update of a tick, or after its cleanup
AtTickBoundary ==
    \/ run_task.pc \in {"callback", "asleep", "done"}
    \/ run_task.pc = "for" /\ run_task.idx = 0

\* C15: command_flight, spawn, set_speed and reset (and stop) act only at a
\* tick boundary: never between the updates of two flights, between the
\* kinematic step and the status step of a flight, or between the last update
\* and the end of cleanup
C15_HandlersAtTickBoundary == [][HandlerStep => AtTickBoundary]_vars

\* C15 witness: a command has been applied to a flight after a tick in which
\* both flights were updated, while run() sleeps
C15_Witness ==
    /\ last_op.op = "command_flight"
    /\ last_op.success
    /\ run_task.pc = "asleep"
    /\ run_task.live = 2
    /\ Len(run_task.steps) = 5

\* C16: once stop() has been called, the next time run() tests the running
\* flag it starts no new tick and returns, whatever commands, set_speed and
\* reset calls came in between
C16_StopEndsLoop ==
    [][n_stops > 0 /\ run_task.pc = "asleep" /\ run_task'.pc # "asleep"
          => run_task'.pc = "done"]_vars

\* the steps of a tick that found n live flights
TickPattern(n) == [i \in 1..n |-> "update"] \o <<"separations", "cleanup", "callback">>

IsPrefix(a, b) == Len(a) <= Len(b) /\ a = SubSeq(b, 1, Len(a))

\* a tick has started and its callback has been invoked
TickDone == n_ticks > 0 /\ run_task.pc \in {"asleep", "done"}

\* C17 as stated: the steps of every tick are the update of every live
\* flight, then check_separations, then cleanup_flights, then the callback
C17_TickOrder ==
    /\ n_ticks > 0 => IsPrefix(run_task.steps, TickPattern(run_task.live))
    /\ TickDone => run_task.steps = TickPattern(run_task.live)

\* the steps of a tick, by whether failed was set when it started
StepsOfTick ==
    IF run_task.failed THEN <<"callback">> ELSE TickPattern(run_task.live)

\* C17 amended: in a tick that starts with failed unset the steps are the
\* update of every live flight, then check_separations, then cleanup_flights,
\* then the callback; in a tick that starts with failed set the callback is
\* the only step; the callback is invoked in every tick
C17_TickOrderUnlessFailed ==
    /\ n_ticks > 0 => IsPrefix(run_task.steps, StepsOfTick)
    /\ TickDone => run_task.steps = StepsOfTick

\* C17 witness: a tick is over in which two flights were updated, the
\* detector found them in collision, and cleanup and the callback still ran
C17_Witness ==
    /\ TickDone
    /\ failed
    /\ ~run_task.failed
    /\ run_task.steps = TickPattern(2)

\* ---- Properties of a granted clearance, of waypoint passage and of the
\* ---- kinematic steps

\* C21: a command with clear_to_land = true on a flight that meets the landing
\* rules leaves cleared_to_land set, clearance_denial_reason unset,
\* target_waypoint = RUNWAY, target_altitude = field elevation and
\* target_speed = the approach speed of the aircraft type, whatever altitude,
\* speed, heading or waypoint the same command carries
C21_GrantOverridesFields ==
    [][/\ ApplyStep
       /\ last_op'.command.clear_to_land = <<TRUE>>
       /\ FailingRules(FlightIn(flights, last_op'.callsign)) = {}
       => LET f == FlightIn(flights, last_op'.callsign)
              g == FlightIn(flights', last_op'.callsign)
          IN  /\ g.cleared_to_land
              /\ g.clearance_denial_reason = None
              /\ g.target_waypoint = "RUNWAY"
              /\ g.target_altitude = AIRPORT.elevation
              /\ g.target_speed = characteristics(f).approach_speed]_vars

\* C21 witness: a command carrying an altitude, a speed, a heading, a waypoint
\* and clear_to_land = true has been applied and the clearance granted
C21_Witness ==
    /\ last_op.op = "command_flight"
    /\ "command" \in DOMAIN last_op
    /\ last_op.command.altitude # <<>>
    /\ last_op.command.speed # <<>>
    /\ last_op.command.heading # <<>>
    /\ last_op.command.waypoint = <<"BASE">>
    /\ last_op.command.clear_to_land = <<TRUE>>
    /\ \E i \in 1..Len(flights) :
          /\ flights[i].callsign = last_op.callsign
          /\ flights[i].cleared_to_land
          /\ flights[i].target_waypoint = "RUNWAY"
          /\ flights[i].target_altitude = AIRPORT.elevation

\* ---- one flight under ticks of several lengths and unvalidated commands ----

\* iterations of run() and commands followed here
MaxFlyTicks == 4
MaxFlyCmds  == 2

\* seconds between two iterations of run(): none, one, and a long one
FlyElapsed == {0, 1, 10}

FlyTypes == {"B738", "C172"}

\* an arrival 0.6 nm short of FINAL, heading for it, not yet commanded
Inbound(aircraft_type) ==
    NewFlight("DAL200", ARRIVAL, aircraft_type, 0, -15600, 3000,
              AIRCRAFT_TYPES[aircraft_type].approach_speed + 40, 0)

\* an arrival on final 0.9 nm from the runway at 300 ft, not yet cleared
ShortFinal ==
    [NewFlight("DAL200", ARRIVAL, "B738", 0, -900, 300, 140, 0)
        EXCEPT !.passed_waypoints = <<"FINAL">>, !.status = ON_FINAL]

\* FlightCommand carries any number for altitude, speed and heading
CmdDive   == FlightCommand(<<-500>>, <<-50>>, <<>>, <<>>, <<>>, <<>>)
CmdNudge  == FlightCommand(<<3020>>, <<>>, <<90>>, <<>>, <<>>, <<>>)
FlyCmds   == {CmdApproach, CmdLand, CmdDive, CmdNudge}

FlyStart ==
    /\ flights \in ({<<Inbound(ty)>> : ty \in FlyTypes} \cup {<<ShortFinal>>})
    /\ failed = FALSE
    /\ failure_reason = None
    /\ collision_pair = <<>>
    /\ speed_multiplier = 2
    /\ landed_count = 0
    /\ departed_count = 0
    /\ near_miss_count = 0
    /\ landed_flights = <<>>
    /\ departed_flights = <<>>
    /\ active_near_misses = {}
    /\ running = TRUE
    /\ now = 0
    /\ last_op = [op |-> "init", callsign |-> None, success |-> TRUE, message |-> None]
    /\ n_ticks = 0 /\ n_cmds = 0 /\ n_spawns = 0
    /\ SchedInit
    /\ LoopInit

FlyNext ==
    \/ n_ticks < MaxFlyTicks /\ \E e \in FlyElapsed : Tick(e)
    \/ n_cmds < MaxFlyCmds /\ \E c \in Live, cmd \in FlyCmds : CommandFlight(c, cmd)

FlySpec == FlyStart /\ [][FlyNext]_vars

\* ---- Properties of waypoint passage and of the kinematic steps ----

\* seconds of simulated time of the tick being taken
TickDt == ((now' - now) * speed_multiplier) \div 2

\* the flight's target waypoint is a registry waypoint closer than 0.5 nm
AtTargetWaypoint(f) ==
    /\ f.target_waypoint \in WaypointSet
    /\ DistLess(WAYPOINTS[f.target_waypoint].x - f.x,
                WAYPOINTS[f.target_waypoint].y - f.y, 500)

\* C22: after every tick, no flight still has as target_waypoint a waypoint
\* it is within 0.5 nm of
C22_NoTargetWithinHalfMile ==
    [][TickStep => \A i \in 1..Len(flights') : ~AtTargetWaypoint(flights'[i])]_vars

\* no name occurs twice in the sequence
NoRepeat(s) == \A i, j \in 1..Len(s) : s[i] = s[j] => i = j

\* C23: no waypoint name occurs more than once in a flight's passed_waypoints,
\* and every tick and every command leaves the passed_waypoints of a flight
\* as they were or longer by appended names
C23_PassedOnceAppendOnly ==
    /\ [](\A i \in 1..Len(flights) : NoRepeat(flights[i].passed_waypoints))
    /\ [][(TickStep \/ ApplyStep) =>
            \A c \in CallsignsIn(flights) \cap CallsignsIn(flights') :
                IsPrefix(FlightIn(flights, c).passed_waypoints,
                         FlightIn(flights', c).passed_waypoints)]_vars

\* a flight that passed FINAL and then RUNWAY has stayed within 0.5 nm of the
\* runway for a further tick
C23_Witness ==
    /\ last_op.op = "update"
    /\ n_ticks >= 3
    /\ \E i \in 1..Len(flights) :
          /\ flights[i].passed_waypoints = <<"FINAL", "RUNWAY">>
          /\ flights[i].status = LANDED

\* ---- the heading step in binary floating point ----

\* The heading arithmetic of Flight.update is done on Python floats.  Here a
\* float is a binary floating-point number of MantissaBits significant bits,
\* held as an integer multiple of 2^-FracBits (of a degree, or of a second):
\* the grid is as fine as the floats are near 1, and coarser than the floats
\* from 2^(MantissaBits - FracBits) on, as a double is finer near 0 than
\* near 360.
MantissaBits == 12
FracBits     == 10

\* turns and heading commands followed here
MaxTurns  == 3
MaxSteers == 2

RECURSIVE Pow2(_)
Pow2(n) == IF n = 0 THEN 1 ELSE 2 * Pow2(n - 1)

RECURSIVE BitLength(_)
BitLength(a) == IF a = 0 THEN 0 ELSE 1 + BitLength(a \div 2)

\* d degrees (or seconds) on the grid
Deg(d) == d * Pow2(FracBits)

\* the result of an arithmetic operation rounded to MantissaBits significant
\* bits, ties to even
FloatRound(n) ==
    LET a == Abs(n)
        e == BitLength(a) - MantissaBits
    IN  IF e <= 0 THEN n
        ELSE LET q    == Pow2(e)
                 m    == a \div q
                 rest == a - m * q
                 r    == IF 2 * rest > q \/ (2 * rest = q /\ m % 2 = 1)
                         THEN (m + 1) * q ELSE m * q
             IN  IF n < 0 THEN -r ELSE r

\* C fmod: the exact remainder, with the sign of x
fmod(x, w) == IF x >= 0 THEN x % w ELSE -((-x) % w)

\* x % w on Python floats for w > 0: fmod, and w added (and rounded) to a
\* negative remainder
float_rem(x, w) ==
    LET mod == fmod(x, w)
    IN  IF mod < 0 THEN FloatRound(mod + w) ELSE mod

\* the heading step of Flight.update on floats
HeadingStep(f, dt) ==
    LET turn_rate    == 3
        heading_diff == FloatRound(
                            float_rem(FloatRound(FloatRound(f.target_heading - f.heading)
                                                 + Deg(540)), Deg(360))
                            - Deg(180))
        turn_amount  == Min(Abs(heading_diff), FloatRound(turn_rate * dt))
    IN  IF 2 * Abs(heading_diff) > Deg(1)
        THEN [f EXCEPT !.heading =
                 float_rem(FloatRound(IF heading_diff > 0 THEN @ + turn_amount
                                      ELSE @ - turn_amount), Deg(360))]
        ELSE f

\* headings a flight is constructed with (0 <= heading < 360), seconds of a
\* tick, and headings of commands, which are not validated
StartHeadings == {0, 307, Deg(90), Deg(359) + 512}
TurnSeconds   == {102, 103, Deg(1)}
SteerHeadings == {Deg(300), Deg(90), Deg(360), Deg(-90), -1}

\* a flight whose heading and target_heading are floats on the grid
HeadingStart ==
    /\ flights \in {<<NewFlight("DAL200", ARRIVAL, "B738", 5000, -10000, 3000, 200, h)>> :
                       h \in StartHeadings}
    /\ failed = FALSE
    /\ failure_reason = None
    /\ collision_pair = <<>>
    /\ speed_multiplier = 2
    /\ landed_count = 0
    /\ departed_count = 0
    /\ near_miss_count = 0
    /\ landed_flights = <<>>
    /\ departed_flights = <<>>
    /\ active_near_misses = {}
    /\ running = TRUE
    /\ now = 0
    /\ last_op = [op |-> "init", callsign |-> None, success |-> TRUE, message |-> None]
    /\ n_ticks = 0 /\ n_cmds = 0 /\ n_spawns = 0
    /\ SchedInit
    /\ LoopInit

\* the heading step of one tick of dt seconds; the other steps of the tick
\* do not write heading or target_heading and are left out
Turn(dt) ==
    /\ n_ticks < MaxTurns
    /\ flights' = [i \in 1..Len(flights) |-> HeadingStep(flights[i], dt)]
    /\ n_ticks' = n_ticks + 1
    /\ last_op' = [op |-> "update", callsign |-> None, success |-> TRUE, message |-> None]
    /\ UNCHANGED <<failed, failure_reason, collision_pair, speed_multiplier,
                   landed_count, departed_count, near_miss_count, landed_flights,
                   departed_flights, active_near_misses, running, now, n_cmds, n_spawns>>
    /\ UNCHANGED schedVars
    /\ UNCHANGED loopVars

\* the heading field of Flight.apply_command
Steer(heading) ==
    /\ n_cmds < MaxSteers
    /\ flights' = [i \in 1..Len(flights) |->
                     [flights[i] EXCEPT !.target_heading = float_rem(heading, Deg(360)),
                                        !.target_waypoint = None]]
    /\ n_cmds' = n_cmds + 1
    /\ last_op' = [op |-> "command_flight", callsign |-> flights[1].callsign,
                   success |-> TRUE, message |-> "Command accepted"]
    /\ UNCHANGED <<failed, failure_reason, collision_pair, speed_multiplier,
                   landed_count, departed_count, near_miss_count, landed_flights,
                   departed_flights, active_near_misses, running, now, n_ticks, n_spawns>>
    /\ UNCHANGED schedVars
    /\ UNCHANGED loopVars

HeadingNext ==
    \/ \E dt \in TurnSeconds : Turn(dt)
    \/ \E h \in SteerHeadings : Steer(h)

HeadingSpec == HeadingStart /\ [][HeadingNext]_vars

\* C24: for every flight in every reachable state, 0 <= heading < 360
C24_HeadingInRange ==
    \A i \in 1..Len(flights) : 0 <= flights[i].heading /\ flights[i].heading < Deg(360)

\* x lies between a and b, inclusive
Between(a, x, b) == Min(a, b) <= x /\ x <= Max(a, b)

\* the speed of flight c after the step lies between its speed before and
\* its target, and differs from the speed before by at most 5 dt
SpeedTowardTarget(c) ==
    LET f == FlightIn(flights, c)
        g == FlightIn(flights', c)
    IN  /\ Between(f.speed, g.speed, f.target_speed)
        /\ Abs(g.speed - f.speed) <= 5 * TickDt

\* flight c lands in the step
Lands(c) ==
    FlightIn(flights, c).status # LANDED /\ FlightIn(flights', c).status = LANDED

\* C25 as stated: in every tick, the speed of every flight moves toward
\* target_speed by at most 5 dt and never passes it
C25_SpeedTowardTarget ==
    [][TickStep => \A c \in CallsignsIn(flights) \cap CallsignsIn(flights') :
                      SpeedTowardTarget(c)]_vars

\* C25 amended: in every tick, the speed of every flight that does not land
\* in the tick moves toward target_speed by at most 5 dt and never passes it;
\* a flight that lands in the tick has speed 0 after it
C25_SpeedTowardTargetUnlessLanding ==
    [][TickStep => \A c \in CallsignsIn(flights) \cap CallsignsIn(flights') :
                      IF Lands(c) THEN FlightIn(flights', c).speed = 0
                      ELSE SpeedTowardTarget(c)]_vars

\* the first tick, of ten seconds, has taken a flight commanded to 160 kt
\* from 180 kt to its target, less than 5 dt away
C25_Witness ==
    /\ last_op.op = "update"
    /\ n_ticks = 1 /\ n_cmds = 1 /\ now = 10
    /\ \E i \in 1..Len(flights) :
          /\ flights[i].aircraft_type = "B738"
          /\ flights[i].status = APPROACHING
          /\ flights[i].speed = 160 /\ flights[i].target_speed = 160

\* C26: in every tick, the altitude of every flight after the tick lies
\* between its altitude before the tick and target_altitude, inclusive
C26_AltitudeTowardTarget ==
    [][TickStep => \A c \in CallsignsIn(flights) \cap CallsignsIn(flights') :
                      Between(FlightIn(flights, c).altitude,
                              FlightIn(flights', c).altitude,
                              FlightIn(flights, c).target_altitude)]_vars

\* C27: in every reachable state, under any ticks and commands, every flight
\* has speed >= 0 and altitude >= 0
C27_SpeedAltitudeNonNegative ==
    \A i \in 1..Len(flights) : flights[i].speed >= 0 /\ flights[i].altitude >= 0

\* ---- Properties of the separation check and of reset ----

\* the pairs of flights of fl, neither in a status of left_out, closer than
\* h horizontally and v vertically
PairsAmong(fl, left_out, h, v) ==
    {SortedPair(fl[i].callsign, fl[j].callsign) : <<i, j>> \in
        {ij \in (1..Len(fl)) \X (1..Len(fl)) :
            /\ ij[1] < ij[2]
            /\ fl[ij[1]].status \notin left_out /\ fl[ij[2]].status \notin left_out
            /\ DistLess(fl[ij[1]].x - fl[ij[2]].x, fl[ij[1]].y - fl[ij[2]].y, h)
            /\ Abs(fl[ij[1]].altitude - fl[ij[2]].altitude) < v}}

\* a tick of a simulation that has not failed detects the collisions and the
\* near misses among the pairs of flights in no status of left_out, and among
\* no others
SeparationAmong(left_out) ==
    TickStep /\ ~failed =>
        /\ failed' <=> PairsAmong(flights', left_out,
                                  COLLISION_DISTANCE_NM, COLLISION_ALTITUDE) # {}
        /\ ~failed' => active_near_misses' =
                          PairsAmong(flights', left_out,
                                     NEAR_MISS_DISTANCE_NM, NEAR_MISS_ALTITUDE)

\* C28 as stated: the separation check considers every pair of live flights
\* in which neither flight is LANDED, AT_GATE or DEPARTED, and leaves out only
\* the flights in one of those three statuses
C28_AllButDoneChecked ==
    [][SeparationAmong({LANDED, AT_GATE, DEPARTED})]_vars

\* C28 amended: the separation check considers every pair of live flights in
\* which neither flight is LANDED, AT_GATE, READY_FOR_TAKEOFF or DEPARTED, and
\* leaves out only the flights in one of those four statuses
C28_AllButGroundChecked ==
    [][SeparationAmong({LANDED, AT_GATE, READY_FOR_TAKEOFF, DEPARTED})]_vars

\* a tick has left the simulation running with a flight that is
\* READY_FOR_TAKEOFF closer than 0.15 nm and 500 ft to a flight taking off
C28_Witness ==
    /\ last_op.op = "update"
    /\ ~failed
    /\ \E i, j \in 1..Len(flights) :
          /\ flights[i].status = READY_FOR_TAKEOFF
          /\ flights[j].status = TAKING_OFF
          /\ InCollision(flights[i], flights[j])

\* C29: after reset() there is no live flight, the three counts are 0, the
\* two histories and the set of active near misses are empty, and failed is
\* false with failure_reason and collision_pair unset, whatever the state
\* before
C29_ResetClears ==
    [][last_op'.op = "reset" =>
         /\ flights' = <<>>
         /\ landed_count' = 0 /\ departed_count' = 0 /\ near_miss_count' = 0
         /\ landed_flights' = <<>> /\ departed_flights' = <<>>
         /\ active_near_misses' = {}
         /\ ~failed' /\ failure_reason' = None /\ collision_pair' = <<>>]_vars

\* reset has acted on a simulation that had been given flights and had run
\* a tick
C29_Witness ==
    /\ last_op.op = "reset"
    /\ n_spawns >= 2 /\ n_ticks >= 1
    /\ flights = <<>> /\ ~failed

\* ---- the occupancy windows of a runway ----

\* AirportFloorPlan.allocate_next reserves a window [start, end) on the
\* runway it picks.  The runway keeps its windows in occupancy: a reservation
\* is inserted, then the windows are sorted and merged; a sweep removes the
\* windows wholly in the past.

\* window w put at its place in the sorted windows s
InsertWindow(s, w) ==
    LET k == Cardinality({i \in 1..Len(s) :
                 \/ s[i].start < w.start
                 \/ s[i].start = w.start /\ s[i].end <= w.end})
    IN  SubSeq(s, 1, k) \o <<w>> \o SubSeq(s, k + 1, Len(s))

RECURSIVE SortWindows(_)
SortWindows(s) == IF s = <<>> THEN <<>> ELSE InsertWindow(SortWindows(Tail(s)), Head(s))

\* the sorted windows s from k on merged into acc: a window that starts
\* inside or at the end of the last one extends it
RECURSIVE MergeWindows(_, _, _)
MergeWindows(acc, s, k) ==
    IF k > Len(s) THEN acc
    ELSE IF acc # <<>> /\ s[k].start <= acc[Len(acc)].end
    THEN MergeWindows([acc EXCEPT ![Len(acc)].end = Max(@, s[k].end)], s, k + 1)
    ELSE MergeWindows(Append(acc, s[k]), s, k + 1)

\* reserve without the merge
reserve_unmerged(occupancy, start_ms, end_ms) ==
    SortWindows(Append(occupancy, [start |-> start_ms, end |-> end_ms]))

\* Runway.reserve
reserve(occupancy, start_ms, end_ms) ==
    MergeWindows(<<>>, SortWindows(Append(occupancy, [start |-> start_ms, end |-> end_ms])), 1)

\* Runway.release_past
release_past(occupancy, now_ms) ==
    LET ahead(w) == w.end > now_ms
    IN  SelectSeq(occupancy, ahead)

\* start times of the windows asked for, the seconds a takeoff and a landing
\* occupy the runway, and the times of the sweeps
ReserveStarts    == {0, 30, 100, 250}
OccupancySeconds == {60, 90}
SweepTimes       == {100}

\* a window reserved on runway i
Reserve(i, start_ms, occupancy_seconds) ==
    /\ runways' = [runways EXCEPT
                     ![i].occupancy = reserve(@, start_ms, start_ms + occupancy_seconds)]
    /\ last_op' = [op |-> "reserve", callsign |-> None, success |-> TRUE, message |-> None]
    /\ UNCHANGED <<schedule_heap, next_id, popped, now>>
    /\ SimUnchanged

\* the windows of runway i that are past at now_ms swept away
ReleasePast(i, now_ms) ==
    /\ runways' = [runways EXCEPT ![i].occupancy = release_past(@, now_ms)]
    /\ last_op' = [op |-> "release_past", callsign |-> None, success |-> TRUE, message |-> None]
    /\ UNCHANGED <<schedule_heap, next_id, popped, now>>
    /\ SimUnchanged

ReserveNext ==
    \/ \E i \in RunwayIndex, st \in ReserveStarts, d \in OccupancySeconds : Reserve(i, st, d)
    \/ \E i \in RunwayIndex, t \in SweepTimes : ReleasePast(i, t)

ReserveSpec == Init /\ [][ReserveNext]_vars

\* two windows share a point in time
Overlap(a, b) == a.start < b.end /\ b.start < a.end

\* C30: after any sequence of reservations, no two windows recorded for a
\* runway share a point in time
C30_WindowsDisjoint ==
    \A i \in 1..Len(runways) :
        \A k, l \in 1..Len(runways[i].occupancy) :
            k # l => ~Overlap(runways[i].occupancy[k], runways[i].occupancy[l])

\* a runway holds two windows, one of them longer than any single
\* reservation: reservations that overlapped were merged
C30_Witness ==
    /\ last_op.op = "reserve"
    /\ \E i \in 1..Len(runways) :
          /\ Len(runways[i].occupancy) = 2
          /\ \E k \in 1..2 :
                runways[i].occupancy[k].end - runways[i].occupancy[k].start > 90

\* ---- the conflict prediction of the agent ----

\* predict_conflict of src/airport/saftey_checks.py and of src/agent/safety.py
\* (the two are the same function).  Positions are in 1/1000 nm and exact;
\* the time of a sub-step is a float, accumulated with `t += dt`: it is held
\* in units of 2^-TimeFracBits minutes and rounded to MantissaBits significant
\* bits after every addition.
TimeFracBits == FracBits + 4

\* the float nearest to tenths / 10 minutes
Minutes(tenths) == FloatRound(RoundDiv(tenths * Pow2(TimeFracBits), 10))

\* float("inf")
Inf == -1

\* heading_to_vector, both components times 1000
heading_to_vector(heading_deg) == <<SinDeg(heading_deg), CosDeg(heading_deg)>>

\* state_after_time
state_after_time(flight, time_minutes) ==
    LET d == heading_to_vector(flight.heading)
        distance_per_minute == RoundDiv(flight.speed * 1000, 60)
    IN  [x |-> flight.x + RoundDiv(RoundDiv(d[1] * distance_per_minute, 1000) * time_minutes,
                                   Pow2(TimeFracBits)),
         y |-> flight.y + RoundDiv(RoundDiv(d[2] * distance_per_minute, 1000) * time_minutes,
                                   Pow2(TimeFracBits)),
         altitude |-> flight.altitude]

\* the square of the horizontal separation of the two flights at a time, by
\* which math.hypot's results are compared, and their vertical separation
HorizontalSq(flight_1, flight_2, t) ==
    LET s1 == state_after_time(flight_1, t)
        s2 == state_after_time(flight_2, t)
    IN  (s1.x - s2.x) * (s1.x - s2.x) + (s1.y - s2.y) * (s1.y - s2.y)
VerticalSep(flight_1, flight_2, t) ==
    Abs(state_after_time(flight_1, t).altitude - state_after_time(flight_2, t).altitude)

\* both thresholds are violated at a time
Violation(flight_1, flight_2, t, horizontal_threshold_nm, vertical_threshold_ft) ==
    /\ HorizontalSq(flight_1, flight_2, t) <= horizontal_threshold_nm * horizontal_threshold_nm
    /\ VerticalSep(flight_1, flight_2, t) < vertical_threshold_ft

\* the while loop of predict_conflict from current_time on; min holds
\* min_horizontal_sep (squared), min_vertical_sep and time_of_minimum
RECURSIVE PredictLoop(_, _, _, _, _, _, _, _)
PredictLoop(flight_1, flight_2, horizon_min, horizontal_threshold_nm, vertical_threshold_ft, time_step, current_time, min) ==
    IF ~(current_time <= horizon_min)
    THEN [will_conflict |-> FALSE, time_min |-> min.t,
          min_horizontal_sq |-> min.h, min_vertical_ft |-> min.v]
    ELSE LET horizontal_sq == HorizontalSq(flight_1, flight_2, current_time)
             vertical_sep  == VerticalSep(flight_1, flight_2, current_time)
             m == IF min.h = Inf \/ horizontal_sq < min.h
                  THEN [h |-> horizontal_sq, v |-> vertical_sep, t |-> current_time]
                  ELSE min
         IN  IF Violation(flight_1, flight_2, current_time,
                          horizontal_threshold_nm, vertical_threshold_ft)
             THEN [will_conflict |-> TRUE, time_min |-> current_time,
                   min_horizontal_sq |-> m.h, min_vertical_ft |-> m.v]
             ELSE PredictLoop(flight_1, flight_2, horizon_min, horizontal_threshold_nm,
                              vertical_threshold_ft, time_step,
                              FloatRound(current_time + time_step), m)

\* predict_conflict
predict_conflict(flight_1, flight_2, horizon_min, horizontal_threshold_nm, vertical_threshold_ft, time_step) ==
    PredictLoop(flight_1, flight_2, horizon_min, horizontal_threshold_nm,
                vertical_threshold_ft, time_step, 0, [h |-> Inf, v |-> Inf, t |-> 0])

\* the pairs looked at: the first flight at the origin at 9000 ft, still or
\* flying east; the second north of it, flying south.  The horizons and steps
\* are those of the callers (2.0 and the default 1.0, step 0.1) and a few
\* others, in tenths of a minute; the thresholds are the defaults.
ConflictNorth     == {5250, 5950, 6950, 8000}
ConflictAltitudes == {9000, 9500, 10000}
ConflictSpeeds1   == {0, 120}
ConflictSpeeds2   == {60, 120}
HorizonTenths     == {5, 10, 20}
StepTenths        == {1, 5}

ConflictStart ==
    /\ flights \in {<<NewFlight("AAL100", ARRIVAL, "B738", 0, 0, 9000, s1, 90),
                      NewFlight("UAL200", ARRIVAL, "B738", 0, y, a, s2, 180)>> :
                       <<y, a, s1, s2>> \in ConflictNorth \X ConflictAltitudes
                                             \X ConflictSpeeds1 \X ConflictSpeeds2}
    /\ failed = FALSE
    /\ failure_reason = None
    /\ collision_pair = <<>>
    /\ speed_multiplier = 2
    /\ landed_count = 0
    /\ departed_count = 0
    /\ near_miss_count = 0
    /\ landed_flights = <<>>
    /\ departed_flights = <<>>
    /\ active_near_misses = {}
    /\ running = TRUE
    /\ now = 0
    /\ last_op = [op |-> "init", callsign |-> None, success |-> TRUE, message |-> None]
    /\ n_ticks = 0 /\ n_cmds = 0 /\ n_spawns = 0
    /\ SchedInit
    /\ LoopInit

\* predict_conflict called on the pair
PredictConflict(horizon_tenths, step_tenths) ==
    /\ last_op' = [op |-> "predict_conflict", callsign |-> None, success |-> TRUE,
                   message |-> None,
                   horizon_min |-> Minutes(horizon_tenths),
                   time_step |-> Minutes(step_tenths),
                   result |-> predict_conflict(flights[1], flights[2],
                                               Minutes(horizon_tenths), 5000, 1000,
                                               Minutes(step_tenths))]
    /\ UNCHANGED <<flights, failed, failure_reason, collision_pair, speed_multiplier,
                   landed_count, departed_count, near_miss_count, landed_flights,
                   departed_flights, active_near_misses, running, now,
                   n_ticks, n_cmds, n_spawns>>
    /\ UNCHANGED schedVars
    /\ UNCHANGED loopVars

ConflictNext == \E h \in HorizonTenths, d \in StepTenths : PredictConflict(h, d)

ConflictSpec == ConflictStart /\ [][ConflictNext]_vars

\* the sub-steps k of a prediction: those with k * time_step <= horizon_min
SubSteps(horizon_min, time_step) == {k \in 0..(horizon_min \div time_step) :
                                        k * time_step <= horizon_min}

\* a reported time is that of sub-step k
IsSubStep(time_min, k, time_step) == 2 * Abs(time_min - k * time_step) < time_step

\* C31: predict_conflict returns will_conflict = true, with the time of the
\* first sub-step among 0, dt, 2 dt, ... up to the horizon at which both
\* thresholds are violated, and will_conflict = false exactly when no sub-step
\* violates both; without a conflict the reported minimum horizontal
\* separation is the minimum over all sub-steps and the reported time is a
\* sub-step that attains it
C31_FirstViolatingSubStep ==
    last_op.op = "predict_conflict" =>
        LET r    == last_op.result
            dt   == last_op.time_step
            K    == SubSteps(last_op.horizon_min, dt)
            V    == {k \in K : Violation(flights[1], flights[2], k * dt, 5000, 1000)}
            sq(k) == HorizontalSq(flights[1], flights[2], k * dt)
        IN  /\ r.will_conflict <=> V # {}
            /\ r.will_conflict =>
                  \E k \in V : /\ \A l \in V : k <= l
                               /\ IsSubStep(r.time_min, k, dt)
            /\ ~r.will_conflict =>
                  \E k \in K : /\ \A l \in K : sq(k) <= sq(l)
                               /\ IsSubStep(r.time_min, k, dt)
                               /\ r.min_horizontal_sq =
                                      HorizontalSq(flights[1], flights[2], r.time_min)

\* ---- the status steps of a tick ----

\* the status of flight c after the step is the status before it, or the
\* next one when the guard of that step holds on the flight as the tick's
\* kinematics and waypoint check left it.  Touchdown writes the altitude, so
\* its guard reads the altitude that the altitude step produced.
StatusStep(c) ==
    LET f == FlightIn(flights, c)
        g == FlightIn(flights', c)
        step(guard, next) == g.status = IF guard THEN next ELSE f.status
    IN  CASE f.status = APPROACHING ->
                 step(SeqContains(g.passed_waypoints, "FINAL") /\ g.altitude < 2000, ON_FINAL)
          [] f.status = ON_FINAL ->
                 step(g.cleared_to_land /\ DistLess(g.x, g.y, 500) /\ g.altitude < 300,
                      LANDING)
          [] f.status = LANDING ->
                 step(DistLess(g.x, g.y, 100)
                         \/ UpdateAltitude(f, TickDt).altitude <= AIRPORT.elevation + 20,
                      LANDED)
          [] f.status = AT_GATE ->
                 step(f.flight_type = DEPARTURE /\ g.gate_time > 60, READY_FOR_TAKEOFF)
          [] f.status = READY_FOR_TAKEOFF ->
                 /\ step(g.cleared_for_takeoff, TAKING_OFF)
                 /\ g.status = TAKING_OFF =>
                       /\ g.target_speed = 180 /\ g.target_altitude = 6000
                       /\ g.target_waypoint = "NORTH"
          [] f.status = TAKING_OFF ->
                 step(g.speed > 140, DEPARTING)
          [] f.status = DEPARTING ->
                 step(SeqContains(g.passed_waypoints, "NORTH") /\ g.altitude >= 5900,
                      DEPARTED)
          [] OTHER -> g.status = f.status

\* C32: in a tick, a flight's status changes by at most one step, and the
\* step is taken exactly when its guard holds on the flight's state after the
\* tick's kinematics and waypoint-passage check
C32_OneStatusStepPerTick ==
    [][TickStep /\ ~failed =>
          \A c \in CallsignsIn(flights) \cap CallsignsIn(flights') : StatusStep(c)]_vars

\* a tick has taken a departure from DEPARTING to DEPARTED
C32_Witness ==
    /\ last_op.op = "update"
    /\ \E i \in 1..Len(flights) :
          /\ flights[i].flight_type = DEPARTURE
          /\ flights[i].status = DEPARTED
          /\ flights[i].completed_at = now

\* ---- the runway a request is given ----

\* C33: process_next_flight returns True only if the flight of the entry it
\* took from the schedule has become the occupant of the first runway, in
\* add_runway order, that was AVAILABLE, that runway being OCCUPIED now with
\* the entry's slot as its operation window; on an empty schedule it returns
\* False and changes neither the schedule nor any runway
C33_FirstAvailableRunwayTaken ==
    [][last_op'.op = "process_next_flight" =>
          /\ last_op'.success =>
                /\ schedule_heap # <<>>
                /\ popped' = <<schedule_heap[1]>>
                /\ \E k \in 1..Len(runways) :
                      /\ runways[k].status = AVAILABLE
                      /\ \A j \in 1..(k - 1) : runways[j].status # AVAILABLE
                      /\ runways'[k].status = OCCUPIED
                      /\ runways'[k].current_flight = <<schedule_heap[1].flight>>
                      /\ runways'[k].operation_start_time = schedule_heap[1].slot_info.start_time
                      /\ runways'[k].operation_end_time = schedule_heap[1].slot_info.end_time
          /\ schedule_heap = <<>> =>
                /\ ~last_op'.success
                /\ schedule_heap' = schedule_heap
                /\ runways' = runways]_vars

\* process_next_flight has returned True and the flight it took is on the
\* second runway, the first one being closed for maintenance
C33_Witness ==
    /\ last_op.op = "process_next_flight" /\ last_op.success
    /\ popped # <<>>
    /\ runways[1].status = MAINTENANCE
    /\ runways[2].status = OCCUPIED
    /\ runways[2].current_flight = <<popped[1].flight>>

\* ---- a runway driven by its own methods ----

\* the flights assigned, the slots they are given, the seconds that pass
\* before a reading of the runway, and the last time a reading is made at
RunwayFlights == {1, 2}
SlotStarts    == {0, 300}
SlotLengths   == {300}
ReadDelays    == {0, 300}
LastReadTime  == 900

\* Runway.assign_flight on runway i; last_op.success is the value returned
AssignFlight(i, flight, start_time, end_time) ==
    /\ \E a \in {assign_flight(runways[i], flight, start_time, end_time)} :
           /\ runways' = [runways EXCEPT ![i] = a.runway]
           /\ last_op' = [op |-> "assign_flight", callsign |-> None,
                          success |-> a.result, message |-> None, runway |-> i]
    /\ UNCHANGED <<schedule_heap, next_id, popped, now>>
    /\ SimUnchanged

\* Runway.complete_landing_or_takeoff on runway i
CompleteLandingOrTakeoff(i) ==
    /\ runways' = [runways EXCEPT ![i] = complete_landing_or_takeoff(runways[i])]
    /\ last_op' = [op |-> "complete_landing_or_takeoff", callsign |-> None,
                   success |-> TRUE, message |-> None]
    /\ UNCHANGED <<schedule_heap, next_id, popped, now>>
    /\ SimUnchanged

RunwayNext ==
    \/ \E i \in RunwayIndex, f \in RunwayFlights, st \in SlotStarts, d \in SlotLengths :
          AssignFlight(i, f, st, st + d)
    \/ \E i \in RunwayIndex : CompleteLandingOrTakeoff(i)
    \/ \E i \in RunwayIndex : ReleaseRunway(i)
    \/ \E i \in RunwayIndex : SetMaintenance(i)
    \/ \E i \in RunwayIndex, d \in ReadDelays :
          now + d <= LastReadTime /\ GetRunwayDetails(i, d)

RunwaySpec == Init /\ [][RunwayNext]_vars

\* C34: assign_flight succeeds only on an AVAILABLE runway; on an OCCUPIED
\* or MAINTENANCE runway it returns False and leaves status, occupant and
\* operation window as they were, so that an occupant is never replaced by
\* another without the runway being released in between
C34_AssignOnlyWhenAvailable ==
    [][/\ last_op'.op = "assign_flight" =>
             LET i == last_op'.runway
             IN  /\ last_op'.success => runways[i].status = AVAILABLE
                 /\ runways[i].status \in {OCCUPIED, MAINTENANCE} =>
                       ~last_op'.success /\ runways'[i] = runways[i]
       /\ \A i \in 1..Len(runways) :
             /\ Len(runways'[i].current_flight) <= 1
             /\ runways[i].current_flight # <<>> =>
                   runways'[i].current_flight \in {runways[i].current_flight, <<>>}]_vars

\* assign_flight has returned False on a runway in MAINTENANCE that still
\* holds the flight and the window it had when it was OCCUPIED
C34_Witness ==
    /\ last_op.op = "assign_flight" /\ ~last_op.success
    /\ runways[last_op.runway].status = MAINTENANCE
    /\ runways[last_op.runway].current_flight = <<1>>
    /\ runways[last_op.runway].operation_end_time \in SlotLengths

\* ---- clearances ----

\* C35: in every state reachable from spawn by ticks and commands, an
\* arrival with cleared_to_land is ON_FINAL, LANDING or LANDED
C35_ClearedOnlyOnFinal ==
    \A i \in 1..Len(flights) :
        flights[i].flight_type = ARRIVAL /\ flights[i].cleared_to_land =>
            flights[i].status \in {ON_FINAL, LANDING, LANDED}

\* a clearance has just been granted to an arrival that is ON_FINAL
C35_Witness ==
    /\ last_op.op = "command_flight" /\ last_op.success
    /\ \E i \in 1..Len(flights) :
          /\ flights[i].callsign = last_op.callsign
          /\ flights[i].flight_type = ARRIVAL
          /\ flights[i].cleared_to_land
          /\ flights[i].status = ON_FINAL

\* C36: in every reachable state, a flight with cleared_to_land has no
\* stored clearance_denial_reason
C36_NoDenialWhileCleared ==
    \A i \in 1..Len(flights) :
        flights[i].cleared_to_land => flights[i].clearance_denial_reason = None

\* C37: while a departure is AT_GATE or READY_FOR_TAKEOFF, its position,
\* altitude and speed are those it was spawned with, under any ticks and
\* commands
C37_UnclearedDepartureStays ==
    \A i \in 1..Len(flights) :
        flights[i].flight_type = DEPARTURE
           /\ flights[i].status \in {AT_GATE, READY_FOR_TAKEOFF} =>
              /\ flights[i].x = 100 /\ flights[i].y = -200
              /\ flights[i].altitude = AIRPORT.elevation
              /\ flights[i].speed = 0

\* ---- the fields of a runway ----

\* C38: in every state reached by assign_flight, release_runway,
\* complete_landing_or_takeoff, set_maintenance and get_runway_details, an
\* AVAILABLE runway has no occupant and no operation start or end time, and
\* an OCCUPIED runway has an occupant and an operation window
C38_FieldsFollowStatus ==
    \A i \in 1..Len(runways) :
        /\ runways[i].status = AVAILABLE =>
              /\ runways[i].current_flight = <<>>
              /\ runways[i].operation_start_time = NoTime
              /\ runways[i].operation_end_time = NoTime
        /\ runways[i].status = OCCUPIED =>
              /\ runways[i].current_flight # <<>>
              /\ runways[i].operation_start_time # NoTime
              /\ runways[i].operation_end_time # NoTime

\* a reading has completed the operation of a runway whose slot had ended,
\* while the other runway is OCCUPIED
C38_Witness ==
    /\ last_op.op = "get_runway_details"
    /\ \E i, j \in 1..Len(runways) :
          /\ runways[i].status = AVAILABLE
          /\ runways[j].status = OCCUPIED
          /\ runways[j].operation_end_time <= now

\* C39: a runway in MAINTENANCE stays in MAINTENANCE, is not the runway
\* get_available_runway returns and is assigned no flight until a caller
\* releases it (release_runway, or complete_landing_or_takeoff, which calls
\* it); reading it with get_runway_details does not change its status
C39_MaintenanceUntilReleased ==
    [][\A i \in 1..Len(runways) :
          runways[i].status = MAINTENANCE =>
             /\ get_available_runway(runways) # i
             /\ last_op'.op \notin {"release_runway", "complete_landing_or_takeoff"} =>
                   /\ runways'[i].status = MAINTENANCE
                   /\ runways'[i].current_flight = runways[i].current_flight]_vars

====
